---------------------------- MODULE Spec2Model ----------------------------
(***************************************************************************)
(* Replica actor and operation batches of taskwarrior3lib                  *)
(* (src/src/storage/replica_taskchampion.rs, operation_batch.rs).          *)
(*                                                                         *)
(* A string held by the store is modelled as the sequence of its words:    *)
(* <<>> is "", <<"a">> is "a", <<"a","b">> is "a b"; the word "\n" is a    *)
(* line break, written with no space around it: <<"a","\n","b">> is the    *)
(* two lines "a" and "b".  A description, project, tag or key of a task or *)
(* an operation is one string; reading a stored value as such a string     *)
(* joins its words.  A UUID is an integer, its text ToString of it.        *)
(* An Option<T> is a sequence of length at most one: <<>> is None.  A      *)
(* HashSet is a set; a function that iterates one is modelled by the set   *)
(* of the results it may give, one for each iteration order.               *)
(***************************************************************************)
EXTENDS Integers, Sequences, FiniteSets, TLC

(***************************************************************************)
(* Bounds of the model.                                                    *)
(***************************************************************************)
NCallers == 2      \* caller threads sharing the wrapper; caller c owns UUID c
MaxCalls == 2      \* wrapper calls begun in one concurrent behaviour
MaxFaults == 1     \* injected store failures, spawn failures and worker panics
MaxCommits == 3    \* commits of one sequential behaviour

Callers == 1..NCallers
UUIDs == 1..NCallers

GoodPaths == {"p1", "p2"}      \* directories where a store can be created
BadPaths == {"bad"}            \* directories where into_storage() fails
AllPaths == GoodPaths \cup BadPaths
NoHandle == "none"

(***************************************************************************)
(* Task domain values.                                                     *)
(***************************************************************************)
Statuses == {"Pending", "Completed", "Deleted", "Waiting", "Recurring"}
\* RFC 3339 date-time texts: "d1" and "d1x" are two times of one second.
Dates == {"d1", "d1x", "d2"}
\* Readings of the clock, Utc::now(): "t1" and "t1x" fall in one second.
Nows == {"t1", "t1x", "t2"}
Times == Dates \cup Nows

\* DateTime::timestamp: the whole seconds of a time.
Timestamp(e) ==
    CASE e \in {"d1", "d1x"} -> 1
      [] e = "d2" -> 2
      [] e \in {"t1", "t1x"} -> 3
      [] e = "t2" -> 4
Numbers == {"0.0", "1", "7", "1.0", "7.0"}   \* texts that parse as f64

EmptyMap == [k \in {} |-> <<>>]
EmptyUdas == [k \in {} |-> [type |-> "String", val |-> <<>>]]

\* Task::new(description) with the given id.
NewTask(id, desc) ==
    [id |-> id, display_id |-> <<>>, description |-> desc, status |-> "Pending",
     entry |-> "d1", modified |-> <<>>, due |-> <<>>, scheduled |-> <<>>,
     wait |-> <<>>, end |-> <<>>, priority |-> <<>>, project |-> <<>>,
     tags |-> {}, annotations |-> <<>>, depends |-> {}, urgency |-> "0.0",
     udas |-> EmptyUdas, recur |-> <<>>, parent |-> <<>>, mask |-> <<>>,
     active |-> FALSE, start |-> <<>>]
\* #[serde(rename_all = "lowercase")] on TaskStatus.
StatusText(s) ==
    CASE s = "Pending" -> "pending"
      [] s = "Completed" -> "completed"
      [] s = "Deleted" -> "deleted"
      [] s = "Waiting" -> "waiting"
      [] s = "Recurring" -> "recurring"

\* The status match of the ReadTask handler.
ParseStatus(txt) ==
    CASE txt = "pending" -> "Pending"
      [] txt = "completed" -> "Completed"
      [] txt = "deleted" -> "Deleted"
      [] txt = "waiting" -> "Waiting"
      [] OTHER -> "Pending"

\* The priority match of the ReadTask handler.
ParsePriority(v) ==
    IF v \in {<<"H">>, <<"M">>, <<"L">>} THEN v ELSE <<>>

IsRfc3339(v) == Len(v) = 1 /\ v[1] \in Times
IsF64(v) == Len(v) = 1 /\ v[1] \in Numbers

\* The text serde_json writes for the f64 a text parses to.
F64Text(txt) ==
    CASE txt \in {"0.0"} -> "0.0"
      [] txt \in {"1", "1.0"} -> "1.0"
      [] txt \in {"7", "7.0"} -> "7.0"

(***************************************************************************)
(* JSON values: [kind, val].  val is the text of a string, number or bool, *)
(* the sequence of the elements of an array, the map of an object.         *)
(***************************************************************************)
JString(s) == [kind |-> "string", val |-> <<s>>]
JNumber(n) == [kind |-> "number", val |-> <<n>>]
JBool(b) == [kind |-> "bool", val |-> << IF b THEN "true" ELSE "false" >>]
JArray(seq) == [kind |-> "array", val |-> seq]
JObject(map) == [kind |-> "object", val |-> map]
JNull == [kind |-> "null", val |-> <<>>]

\* The keys of the model's JSON objects in the order of serde_json's Map,
\* which is sorted by the bytes of the key: the fields of a task and the
\* user defined attributes "aaa", "estimate", "who" and "zzz".
KeyOrder ==
    << "aaa", "active", "annotations", "depends", "description", "due", "end",
       "entry", "estimate", "id", "mask", "modified", "parent", "priority",
       "project", "recur", "scheduled", "start", "status", "tags", "urgency",
       "uuid", "wait", "who", "zzz" >>

\* The orders in which a HashSet holding these elements may iterate: the
\* order depends on the RandomState of the set, so every order is possible.
IterOrders(set) ==
    { s \in [1..Cardinality(set) -> set] :
        \A i, j \in 1..Cardinality(set) : s[i] = s[j] => i = j }

\* impl Serialize for UdaValue: a number is written as an f64.
UdaJson(u) ==
    CASE u.type = "Number" -> [kind |-> "number", val |-> << F64Text(u.val[1]) >>]
      [] OTHER -> [kind |-> "string", val |-> u.val]

\* #[derive(Serialize)] on Annotation and on RecurrencePattern.
AnnotationJson(ann) ==
    JObject([entry |-> JString(ann.entry), description |-> JString(ann.description)])
RecurJson(r) ==
    JObject([pattern |-> JString(r.pattern), periodic |-> JBool(r.periodic)])

\* impl Serialize for Task: the maps serde_json::to_value may build, one for
\* each iteration order of the tags and of the dependencies.  The user
\* defined attributes are written last and replace a known key of their name.
TaskJson(t) ==
    LET opt(k, v) == IF v = <<>> THEN EmptyMap ELSE (k :> JString(v[1]))
        std(tags, deps) ==
               ("uuid" :> JString(ToString(t.id)))
               @@ (IF t.display_id = <<>> THEN EmptyMap
                   ELSE ("id" :> JNumber(t.display_id[1])))
               @@ ("description" :> JString(t.description))
               @@ ("status" :> JString(StatusText(t.status)))
               @@ ("entry" :> JString(t.entry))
               @@ opt("modified", t.modified)
               @@ opt("due", t.due)
               @@ opt("scheduled", t.scheduled)
               @@ opt("wait", t.wait)
               @@ opt("end", t.end)
               @@ opt("priority", t.priority)
               @@ opt("project", t.project)
               @@ (IF t.tags = {} THEN EmptyMap
                   ELSE ("tags" :> JArray([i \in 1..Len(tags) |-> JString(tags[i])])))
               @@ (IF t.annotations = <<>> THEN EmptyMap
                   ELSE ("annotations" :>
                            JArray([i \in 1..Len(t.annotations) |->
                                       AnnotationJson(t.annotations[i])])))
               @@ (IF t.depends = {} THEN EmptyMap
                   ELSE ("depends" :>
                            JArray([i \in 1..Len(deps) |-> JString(ToString(deps[i]))])))
               @@ ("urgency" :> JNumber(t.urgency))
               @@ (IF t.recur = <<>> THEN EmptyMap
                   ELSE ("recur" :> RecurJson(t.recur[1])))
               @@ (IF t.parent = <<>> THEN EmptyMap
                   ELSE ("parent" :> JString(ToString(t.parent[1]))))
               @@ opt("mask", t.mask)
               @@ ("active" :> JBool(t.active))
               @@ opt("start", t.start)
        udas == [k \in DOMAIN t.udas |-> UdaJson(t.udas[k])]
    IN  { JObject(udas @@ std(tags, deps)) :
            tags \in IterOrders(t.tags), deps \in IterOrders(t.depends) }

(***************************************************************************)
(* Operations (operation_batch.rs).                                        *)
(***************************************************************************)
UndoPoint == [op |-> "UndoPoint"]
Create(uuid, data) == [op |-> "Create", uuid |-> uuid, data |-> data]
Delete(uuid) == [op |-> "Delete", uuid |-> uuid]
Update(uuid, key, old, new) ==
    [op |-> "Update", uuid |-> uuid, key |-> key, old |-> old, new |-> new]
SetField(uuid, key, value) ==
    [op |-> "SetField", uuid |-> uuid, key |-> key, value |-> value]
UnsetField(uuid, key) == [op |-> "UnsetField", uuid |-> uuid, key |-> key]
AddTag(uuid, tag) == [op |-> "AddTag", uuid |-> uuid, tag |-> tag]
RemoveTag(uuid, tag) == [op |-> "RemoveTag", uuid |-> uuid, tag |-> tag]
AddAnnotation(uuid, entry, description) ==
    [op |-> "AddAnnotation", uuid |-> uuid, entry |-> entry,
     description |-> description]
AddDependency(uuid, depends_on) ==
    [op |-> "AddDependency", uuid |-> uuid, depends_on |-> depends_on]
RemoveDependency(uuid, depends_on) ==
    [op |-> "RemoveDependency", uuid |-> uuid, depends_on |-> depends_on]

\* create_from_task: the Create operations the function may return, one for
\* each map Task's Serialize may build.  Serialize for Task returns no error,
\* so the Null of unwrap_or is never the data.
create_from_task(t) == { Create(t.id, data) : data \in TaskJson(t) }

\* Option<String> as a JSON value: the string, or Null.
JOption(v) == IF v = << >> THEN JNull ELSE JString(v[1])

\* An operation for each element of a sequence.
OpsOf(seq, Mk(_)) == [i \in 1..Len(seq) |-> Mk(seq[i])]

\* The description comparison of compute_update_ops.
DescriptionOps(old, new) ==
    IF old.description # new.description
    THEN << Update(old.id, "description", JString(old.description),
                   JString(new.description)) >>
    ELSE << >>

\* Faulty variant: the Update names the new task's id.
ProjectOpsNewId(old, new) ==
    IF old.project # new.project
    THEN << Update(new.id, "project", JOption(old.project), JOption(new.project)) >>
    ELSE << >>

\* The project comparison.
ProjectOps(old, new) ==
    IF old.project # new.project
    THEN << Update(old.id, "project", JOption(old.project), JOption(new.project)) >>
    ELSE << >>

\* Faulty variant: removed tags are not diffed.
TagOpsAddOnly(old, new) ==
    { OpsOf(added, LAMBDA t : AddTag(old.id, t)) :
        added \in IterOrders(new.tags \ old.tags) }

\* The tags comparison: the elements of each set difference come in the
\* iteration order of the set they are taken from, so the function may
\* return any order of the additions followed by any order of the removals.
TagOps(old, new) ==
    IF old.tags # new.tags
    THEN { OpsOf(added, LAMBDA t : AddTag(old.id, t))
           \o OpsOf(removed, LAMBDA t : RemoveTag(old.id, t)) :
             added \in IterOrders(new.tags \ old.tags),
             removed \in IterOrders(old.tags \ new.tags) }
    ELSE { << >> }

\* The status comparison: both values in their Debug form.
StatusOps(old, new) ==
    IF old.status # new.status
    THEN << Update(old.id, "status", JString(old.status), JString(new.status)) >>
    ELSE << >>

\* The dependencies comparison, in the iteration orders of the two sets.
DependsOps(old, new) ==
    IF old.depends # new.depends
    THEN { OpsOf(added, LAMBDA d : AddDependency(old.id, d))
           \o OpsOf(removed, LAMBDA d : RemoveDependency(old.id, d)) :
             added \in IterOrders(new.depends \ old.depends),
             removed \in IterOrders(old.depends \ new.depends) }
    ELSE { << >> }

\* Some annotation of the task has this entry and this description.
HasAnnotation(t, ann) ==
    \E i \in 1..Len(t.annotations) :
        /\ t.annotations[i].entry = ann.entry
        /\ t.annotations[i].description = ann.description

\* Faulty variant: annotations are matched by their text alone.
AnnotationOpsByText(old, new) ==
    OpsOf(SelectSeq(new.annotations,
                    LAMBDA ann : \A i \in 1..Len(old.annotations) :
                                    old.annotations[i].description # ann.description),
          LAMBDA ann : AddAnnotation(old.id, ann.entry, ann.description))

\* The annotations comparison: additions only.
AnnotationOps(old, new) ==
    IF old.annotations # new.annotations
    THEN OpsOf(SelectSeq(new.annotations, LAMBDA ann : ~HasAnnotation(old, ann)),
               LAMBDA ann : AddAnnotation(old.id, ann.entry, ann.description))
    ELSE << >>

\* The operation lists compute_update_ops may return from old to new, each in
\* the order the function pushes them.
compute_update_ops(old, new) ==
    { DescriptionOps(old, new) \o ProjectOps(old, new) \o tagOps
      \o StatusOps(old, new) \o depOps \o AnnotationOps(old, new) :
        tagOps \in TagOps(old, new), depOps \in DependsOps(old, new) }

\* Faulty variant: an unchanged task gets no UndoPoint.
build_save_batch_bare(existing, new_task) ==
    IF existing = << >>
    THEN { << UndoPoint, op >> : op \in create_from_task(new_task) }
    ELSE IF existing[1] = new_task THEN { << >> }
    ELSE { << UndoPoint >> \o ops : ops \in compute_update_ops(existing[1], new_task) }

\* The batches build_save_batch may return; existing is an Option<&Task>: a
\* sequence of at most one task.
build_save_batch(existing, new_task) ==
    IF existing = << >>
    THEN { << UndoPoint, op >> : op \in create_from_task(new_task) }
    ELSE { << UndoPoint >> \o ops : ops \in compute_update_ops(existing[1], new_task) }
build_delete_batch(id) == << UndoPoint, Delete(id) >>

(***************************************************************************)
(* The embedded store as the code uses it: a database is a function from   *)
(* the UUIDs it holds to their field maps; a native operation is a Create, *)
(* an Update of one property (set or removed) or an UndoPoint.             *)
(***************************************************************************)
EmptyDb == [u \in {} |-> EmptyMap]

TcUndoPoint == [tc |-> "UndoPoint", uuid |-> 0, property |-> "",
                set |-> FALSE, value |-> <<>>]
TcCreate(uuid) == [tc |-> "Create", uuid |-> uuid, property |-> "",
                   set |-> FALSE, value |-> <<>>]
TcSet(uuid, property, value) ==
    [tc |-> "Update", uuid |-> uuid, property |-> property,
     set |-> TRUE, value |-> value]
TcUnset(uuid, property) ==
    [tc |-> "Update", uuid |-> uuid, property |-> property,
     set |-> FALSE, value |-> <<>>]

\* Tags the store's Tag type does not parse, and synthetic tags, which parse
\* but which add_tag and remove_tag reject.
UnparsableTags == {"9z"}
SyntheticTags == {"PENDING"}

TagKey(tag) == "tag_" \o tag


\* Option<String> results of the value conversions.
SomeStr(v) == [some |-> TRUE, val |-> v]
NoStr == [some |-> FALSE, val |-> <<>>]

\* The value match of the Create arm: strings, numbers and bools are
\* written, an array only under the key "tags" (its string elements joined
\* with spaces), everything else is skipped.
CreateValue(key, j) ==
    CASE j.kind \in {"string", "number", "bool"} -> SomeStr(j.val)
      [] j.kind = "array" ->
            IF key = "tags"
            THEN LET strs == SelectSeq(j.val, LAMBDA v : v.kind = "string")
                 IN  SomeStr([i \in 1..Len(strs) |-> strs[i].val[1]])
            ELSE NoStr
      [] OTHER -> NoStr

\* The value match of the Update arm: Null and complex values unset the key.
UpdateValue(j) ==
    CASE j.kind \in {"string", "number", "bool"} -> SomeStr(j.val)
      [] OTHER -> NoStr

\* TaskData::update(property, value, ops).
TcUpdate(uuid, property, v) ==
    IF v.some THEN TcSet(uuid, property, v.val) ELSE TcUnset(uuid, property)

\* The Create arm of to_taskchampion_operations: TaskData::create, then one
\* update for each entry of the data when the data is an object, in the
\* order of the map's keys, which is sorted over all of them.  Every key of
\* the data is one of KeyOrder.
CreateOps(uuid, data) ==
    IF data.kind # "object" THEN << TcCreate(uuid) >>
    ELSE LET sorted == SelectSeq(KeyOrder, LAMBDA k : k \in DOMAIN data.val)
             mapKeys == [i \in 1..Cardinality(DOMAIN data.val) |-> sorted[i]]
             keys == SelectSeq(mapKeys,
                        LAMBDA k : /\ k # "uuid"
                                   /\ CreateValue(k, data.val[k]).some)
         IN  << TcCreate(uuid) >>
             \o [i \in 1..Len(keys) |->
                    TcSet(uuid, keys[i], CreateValue(keys[i], data.val[keys[i]]).val)]
\* Faulty variant: the status is written in its Debug form, as compute_update_ops
\* writes it.
DeleteOpsDebugStatus(uuid) ==
    << TcCreate(uuid), TcSet(uuid, "status", <<"Deleted">>) >>

\* Faulty variant: the status is written without a create before it.
DeleteOpsNoCreate(uuid) == << TcSet(uuid, "status", <<"deleted">>) >>

\* The Delete arm: the status field is set to the deleted sentinel.
DeleteOps(uuid) == << TcCreate(uuid), TcSet(uuid, "status", <<"deleted">>) >>

\* The AddTag arm: the Task helper when replica.get_task gives the task
\* (the replica could be read, got, and holds it), the tag_<name> key
\* convention when it gives none or fails.
AddTagOps(db, uuid, tag, got) ==
    IF got /\ uuid \in DOMAIN db
    THEN IF tag \in UnparsableTags \cup SyntheticTags
         THEN << >>
         ELSE << TcSet(uuid, TagKey(tag), <<>>) >>
    ELSE << TcCreate(uuid), TcSet(uuid, TagKey(tag), <<>>) >>

\* The RemoveTag arm.
RemoveTagOps(db, uuid, tag, got) ==
    IF got /\ uuid \in DOMAIN db
    THEN IF tag \in UnparsableTags \cup SyntheticTags
         THEN << >>
         ELSE << TcUnset(uuid, TagKey(tag)) >>
    ELSE << TcCreate(uuid), TcUnset(uuid, TagKey(tag)) >>

\* format!("annotation_{}", entry.timestamp()): the entry's whole seconds
\* name the property, so two entries of one second name the same one.
AnnotationKey(entry) == "annotation_" \o ToString(Timestamp(entry))

\* The AddAnnotation arm: Task::add_annotation when the task is given, the
\* annotation_<timestamp> key convention otherwise.
AddAnnotationOps(db, uuid, entry, description, got) ==
    IF got /\ uuid \in DOMAIN db
    THEN << TcSet(uuid, AnnotationKey(entry), << description >>) >>
    ELSE << TcCreate(uuid), TcSet(uuid, AnnotationKey(entry), << description >>) >>

DepKey(depends_on) == "dep_" \o ToString(depends_on)

\* The AddDependency arm.
AddDependencyOps(db, uuid, depends_on, got) ==
    IF got /\ uuid \in DOMAIN db
    THEN << TcSet(uuid, DepKey(depends_on), << >>) >>
    ELSE << TcCreate(uuid), TcSet(uuid, DepKey(depends_on), << >>) >>

\* The RemoveDependency arm.
RemoveDependencyOps(db, uuid, depends_on, got) ==
    IF got /\ uuid \in DOMAIN db
    THEN << TcUnset(uuid, DepKey(depends_on)) >>
    ELSE << TcCreate(uuid), TcUnset(uuid, DepKey(depends_on)) >>

\* One arm of the match in to_taskchampion_operations; got is whether the
\* replica can be read when the arm asks it for the task.
OpToTc(db, o, got) ==
    CASE o.op = "UndoPoint" -> << TcUndoPoint >>
      [] o.op = "Create" -> CreateOps(o.uuid, o.data)
      [] o.op = "Delete" -> DeleteOps(o.uuid)
      [] o.op = "Update" ->
            << TcCreate(o.uuid), TcUpdate(o.uuid, o.key, UpdateValue(o.new)) >>
      [] o.op = "SetField" ->
            << TcCreate(o.uuid), TcSet(o.uuid, o.key, o.value) >>
      [] o.op = "UnsetField" ->
            << TcCreate(o.uuid), TcUnset(o.uuid, o.key) >>
      [] o.op = "AddTag" -> AddTagOps(db, o.uuid, o.tag, got)
      [] o.op = "RemoveTag" -> RemoveTagOps(db, o.uuid, o.tag, got)
      [] o.op = "AddAnnotation" ->
            AddAnnotationOps(db, o.uuid, o.entry, o.description, got)
      [] o.op = "AddDependency" ->
            AddDependencyOps(db, o.uuid, o.depends_on, got)
      [] o.op = "RemoveDependency" ->
            RemoveDependencyOps(db, o.uuid, o.depends_on, got)

\* The outcomes of the replica reads of one mapping, one for each
\* operation of the batch: every read succeeds (readable), or any of
\* those the batch asks for may fail.
GetResults(ops, readable) ==
    LET SnapshotOps == {"AddTag", "RemoveTag", "AddAnnotation", "AddDependency",
                        "RemoveDependency"}
    IN  IF readable THEN { [i \in 1..Len(ops) |-> TRUE] }
        ELSE { gets \in [1..Len(ops) -> BOOLEAN] :
                 /\ \A i \in 1..Len(ops) : ops[i].op \notin SnapshotOps => gets[i]
                 /\ \E i \in 1..Len(ops) : ~gets[i] }

RECURSIVE to_taskchampion_operations(_, _, _)
\* The native operations of a batch, in batch order; gets[i] is whether the
\* replica can be read while operation i is mapped.  The replica is only
\* read (get_task) while mapping, and the function always returns Ok.
to_taskchampion_operations(db, ops, gets) ==
    IF ops = << >> THEN << >>
    ELSE OpToTc(db, Head(ops), Head(gets))
         \o to_taskchampion_operations(db, Tail(ops), Tail(gets))

\* The store's native undo point: a marker that delimits an undoable unit
\* of work and changes no task.
ApplyUndoPoint(db) == db

\* The store applies one native operation: Create does nothing when the
\* task exists, Update does nothing when it does not.
ApplyTcOp(db, t) ==
    CASE t.tc = "Create" ->
            IF t.uuid \in DOMAIN db THEN db ELSE (t.uuid :> EmptyMap) @@ db
      [] t.tc = "Update" ->
            IF t.uuid \notin DOMAIN db THEN db
            ELSE LET old == db[t.uuid]
                     new == IF t.set
                            THEN (t.property :> t.value) @@ old
                            ELSE [k \in DOMAIN old \ {t.property} |-> old[k]]
                 IN  [db EXCEPT ![t.uuid] = new]
      [] t.tc = "UndoPoint" -> ApplyUndoPoint(db)

RECURSIVE ApplyTcOps(_, _)
\* The operations of one transaction applied in order; next is the database
\* after the first of them.
ApplyTcOps(db, tcs) ==
    IF tcs = << >> THEN db
    ELSE CHOOSE out \in { ApplyTcOps(next, Tail(tcs)) :
                              next \in { ApplyTcOp(db, Head(tcs)) } } : TRUE

\* Faulty variant: every commit starts from an empty database.
TcCommitFresh(db, tcs, storeOk) ==
    IF storeOk THEN ApplyTcOps(EmptyDb, tcs) ELSE db

\* Faulty variant: the transaction is answered but never applied.
TcCommitDropped(db, tcs, storeOk) == db

\* What the store holds after a transaction that failed: the batch either
\* fully applies or fails as a whole, with no partial application.
FailedCommit(db, tcs) == db

\* replica.commit_operations(tc_ops): one transaction, applied when the
\* store accepts it.
TcCommit(db, tcs, storeOk) ==
    IF storeOk THEN ApplyTcOps(db, tcs) ELSE FailedCommit(db, tcs)

(***************************************************************************)
(* Results.  A result is [ok, found, task, err]: Ok(()) is ok with found   *)
(* FALSE, Ok(None) likewise, Ok(Some(task)) is ok with found TRUE.         *)
(***************************************************************************)
NoTask == NewTask(0, "")
Ok == [ok |-> TRUE, found |-> FALSE, task |-> NoTask, err |-> ""]
OkSome(task) == [ok |-> TRUE, found |-> TRUE, task |-> task, err |-> ""]
Err(msg) == [ok |-> FALSE, found |-> FALSE, task |-> NoTask, err |-> msg]

StandardFields ==
    { "description", "status", "entry", "project", "tags", "modified", "due",
      "scheduled", "wait", "end", "start", "priority", "annotations",
      "depends", "recur", "parent", "mask", "active", "id", "uuid" }

\* The type probe of the ReadTask handler: number, then date, else string.
UdaOf(v) ==
    CASE IsF64(v) -> [type |-> "Number", val |-> << F64Text(v[1]) >>]
      [] IsRfc3339(v) -> [type |-> "Date", val |-> v]
      [] OTHER -> [type |-> "String", val |-> v]

\* The UUIDs whose text the model can parse back.
KnownUuids == 0..3

\* Uuid::parse_str: the text parsed back to the UUID it is the text of.
ParseUuid(txt) ==
    IF \E u \in KnownUuids : ToString(u) = txt
    THEN << CHOOSE u \in KnownUuids : ToString(u) = txt >>
    ELSE << >>

\* A stored string is the sequence of its words; the word NL is a line break.
NL == "\n"

\* str::split_whitespace.
Words(v) == SelectSeq(v, LAMBDA w : w # NL)

\* The text of a stored string as one String: its words with one space
\* between two of them and none next to a line break.
RECURSIVE JoinWords(_)
JoinWords(v) ==
    CASE v = << >> -> ""
      [] Len(v) = 1 -> v[1]
      [] OTHER -> v[1] \o (IF v[1] = NL \/ v[2] = NL THEN "" ELSE " ")
                       \o JoinWords(Tail(v))

\* str::lines: the text between line breaks, no empty last line.
RECURSIVE Lines(_)
Lines(v) ==
    IF v = << >> THEN << >>
    ELSE IF \E i \in 1..Len(v) : v[i] = NL
         THEN LET i == CHOOSE i \in 1..Len(v) :
                          v[i] = NL /\ \A j \in 1..(i - 1) : v[j] # NL
              IN  << SubSeq(v, 1, i - 1) >> \o Lines(SubSeq(v, i + 1, Len(v)))
         ELSE << v >>

\* The line splits at a space into an RFC 3339 time and a text.
HasTimestamp(line) == Len(line) >= 2 /\ line[1] \in Times

\* One line of the stored annotations: "<rfc3339> <description>" with
\* every backslash followed by n in the description replaced by a line
\* break, or the whole line, as it is, as the description of an annotation
\* made now.  Unescaped lists the words that hold a backslash followed by
\* n, each with its text after the replacement.
AnnotationOfLine(line, now) ==
    IF HasTimestamp(line)
    THEN LET Unescaped == ("\\n" :> "\n") @@ ("a\\nb" :> "a\nb")
                          @@ ("a\\n" :> "a\n") @@ ("\\nb" :> "\nb")
             rest == Tail(line)
             word(i) == IF rest[i] \in DOMAIN Unescaped
                        THEN Unescaped[rest[i]] ELSE rest[i]
             text[i \in 1..Len(rest)] ==
                 IF i = 1 THEN word(1) ELSE text[i - 1] \o " " \o word(i)
         IN  [entry |-> line[1], description |-> text[Len(rest)]]
    ELSE [entry |-> now, description |-> JoinWords(line)]

\* RecurrencePattern::parse.  A leading 'P' is stripped and makes the
\* pattern periodic; the rest is valid when is_valid_pattern lists it or
\* when it ends in d, w, m, q or y.  StripP lists the words of the model's
\* texts that start with 'P', each with the rest of the word, and
\* EndsInUnit those that end in one of the five letters.
ParseRecur(v) ==
    IF v = << >> THEN << >>
    ELSE LET StripP == ("P" :> "") @@ ("P3w" :> "3w") @@ ("P1d" :> "1d")
                       @@ ("Pdaily" :> "daily") @@ ("Pweekly" :> "weekly")
                       @@ ("Pmonthly" :> "monthly") @@ ("Pquarterly" :> "quarterly")
                       @@ ("Pyearly" :> "yearly") @@ ("Pweekdays" :> "weekdays")
                       @@ ("Pweekends" :> "weekends") @@ ("Pending" :> "ending")
                       @@ ("PENDING" :> "ENDING") @@ ("Pmilk" :> "milk")
             ListedPatterns == {"daily", "weekly", "monthly", "quarterly",
                                "yearly", "weekdays", "weekends"}
             EndsInUnit == {"daily", "weekly", "monthly", "quarterly", "yearly",
                            "3w", "1d", "d", "w", "m", "q", "y", "now", "new",
                            "old", "end", "bad", "id", "uuid", "entry",
                            "priority", "urgency", "modified", "scheduled",
                            "completed", "deleted", "Completed", "Deleted",
                            "P3w", "P1d", "Pdaily", "Pweekly", "Pmonthly",
                            "Pquarterly", "Pyearly", "key", "array", "read",
                            "send", "stored", "closed", "dropped", "empty",
                            "failed", "query", "configured", "parsed",
                            "serialized", "exited", "panicked", "unspawned",
                            "bad_row", "SetField", "UnsetField",
                            "AddDependency", "RemoveDependency"}
             periodic == v[1] \in DOMAIN StripP
             words == IF periodic THEN << StripP[v[1]] >> \o Tail(v) ELSE v
             valid == \/ Len(words) = 1 /\ words[1] \in ListedPatterns
                      \/ words[Len(words)] \in EndsInUnit
         IN  IF valid
             THEN << [pattern |-> JoinWords(words), periodic |-> periodic] >>
             ELSE << >>

\* The readings of the clock one conversion of a stored field map takes:
\* one for an entry that is missing or does not parse, then one for each
\* annotation line without a timestamp, in the order of the lines.
NoEntry(td) == ~("entry" \in DOMAIN td /\ IsRfc3339(td["entry"]))
AnnotationLines(td) ==
    IF "annotations" \in DOMAIN td THEN Lines(td["annotations"]) ELSE << >>
Undated(td, n) ==
    Cardinality({ i \in 1..n : ~HasTimestamp(AnnotationLines(td)[i]) })
ClockReads(td) ==
    (IF NoEntry(td) THEN 1 ELSE 0) + Undated(td, Len(AnnotationLines(td)))

\* The ReadTask handler's conversion of a stored field map to a Task; nows
\* are the readings of the clock during the conversion, in their order.
TaskFromMap(id, td, nows) ==
    LET has(k) == k \in DOMAIN td
        first == IF NoEntry(td) THEN 1 ELSE 0
        date(k) == IF has(k) /\ IsRfc3339(td[k]) THEN td[k] ELSE << >>
    IN  [id |-> id,
         display_id |-> << >>,
         description |-> IF has("description") THEN JoinWords(td["description"]) ELSE "",
         status |-> IF has("status") THEN ParseStatus(JoinWords(td["status"]))
                    ELSE "Pending",
         entry |-> IF NoEntry(td) THEN nows[1] ELSE td["entry"][1],
         project |-> IF has("project") THEN << JoinWords(td["project"]) >> ELSE << >>,
         tags |-> IF has("tags")
                  THEN LET ws == Words(td["tags"]) IN { ws[i] : i \in 1..Len(ws) }
                  ELSE {},
         modified |-> date("modified"),
         due |-> date("due"),
         scheduled |-> date("scheduled"),
         wait |-> date("wait"),
         end |-> date("end"),
         start |-> date("start"),
         priority |-> IF has("priority") THEN ParsePriority(td["priority"]) ELSE << >>,
         annotations |-> LET ls == AnnotationLines(td)
                         IN  [i \in 1..Len(ls) |->
                                AnnotationOfLine(ls[i],
                                    IF HasTimestamp(ls[i]) THEN ""
                                    ELSE nows[first + Undated(td, i)])],
         depends |-> IF has("depends")
                     THEN LET ws == Words(td["depends"])
                          IN  { ParseUuid(ws[i])[1] :
                                  i \in { j \in 1..Len(ws) : ParseUuid(ws[j]) # << >> } }
                     ELSE {},
         urgency |-> "0.0",
         recur |-> IF has("recur") THEN ParseRecur(td["recur"]) ELSE << >>,
         parent |-> IF has("parent") /\ Len(td["parent"]) = 1
                    THEN ParseUuid(td["parent"][1]) ELSE << >>,
         mask |-> IF has("mask") THEN << JoinWords(td["mask"]) >> ELSE << >>,
         active |-> has("active") /\ td["active"] \in {<<"1">>, <<"true">>, <<"True">>},
         udas |-> [k \in DOMAIN td \ StandardFields |-> UdaOf(td[k])]]
\* Faulty variant: a UUID without a record is answered with an error.
ReadTaskAbsentIsError(db, id, nows) ==
    IF id \in DOMAIN db THEN OkSome(TaskFromMap(id, db[id], nows))
    ELSE Err("no such task")

\* The ReadTask handler against a readable store.
ReadTask(db, id, nows) ==
    IF id \in DOMAIN db THEN OkSome(TaskFromMap(id, db[id], nows)) ELSE Ok

\* The readings of the clock a read of a UUID may take.
ClockReadings(db, id) ==
    IF id \in DOMAIN db THEN [1..ClockReads(db[id]) -> Nows] ELSE { << >> }


(***************************************************************************)
(* The actor.                                                              *)
(***************************************************************************)
VARIABLES
    factory,      \* open_taskchampion_replica: "start", "wait", "ok" (wrapper
                  \* returned), "err_spawn", "err_open", "err_timeout", "dropped"
    fpath,        \* the path given to the factory
    worker,       \* "unspawned", "opening", "running", "swapping" (inside the
                  \* Open handler), "unwinding" (a handler has panicked and
                  \* the closure's values are being dropped), "exited",
                  \* "panicked"
    handle,       \* path of the replica the worker holds, or NoHandle
    newHandle,    \* path of the storage the Open handler has just opened
    startup,      \* startup handshake channel
    senderAlive,  \* cmd_tx (the factory's, then the wrapper's) is not dropped
    queue,        \* command channel; the command a handler is working on
                  \* stays at its head until the handler is done with it
    lock,         \* holder of the wrapper's sender mutex, 0 when free
    pc,           \* per caller: "idle", "lock", "send", "recv"
    cur,          \* per caller: the command of its current or last call
    reply,        \* per caller: its one-shot reply channel
    result,       \* per caller: what its last call returned
    stores,       \* the database at each path
    calls,        \* calls begun
    commits,      \* commit_operations calls begun
    faults,       \* faults injected
    nextSeq,      \* history: commands sent
    handled,      \* history: commands the worker has taken from the channel
    acked,        \* history: [at, uuid, seq] of every UUID named in a batch
                  \* committed with Ok
    last,         \* history: the last Commit handled, and the read answered
                  \* last before it
    lastRead,     \* history: the last ReadTask answered, where reads are noted
    backend,      \* the TaskChampionStorageBackend that owns the wrapper: whether
                  \* a wrapper is injected, and its save_task or delete_task call
    others,       \* per path: the workers of further factory calls that hold a
                  \* replica on it
    fncall        \* a call of a function that involves no actor: its name,
                  \* its arguments and, once it has returned, its result

vars == << factory, fpath, worker, handle, newHandle, startup, senderAlive,
           queue, lock, pc, cur, reply, result, stores, calls, commits,
           faults, nextSeq, handled, acked, last, lastRead, backend, others,
           fncall >>

CommitCmd(ops) == [kind |-> "Commit", ops |-> ops, path |-> "", id |-> 0]
OpenCmd(path) == [kind |-> "Open", ops |-> << >>, path |-> path, id |-> 0]
ReadCmd(id) == [kind |-> "ReadTask", ops |-> << >>, path |-> "", id |-> id]
NoCmd == [kind |-> "", ops |-> << >>, path |-> "", id |-> 0]

\* A reply channel: nothing sent yet, a message, or the sender dropped
\* without sending.
EmptyReply == [st |-> "empty", res |-> Ok, at |-> "", seq |-> 0]
Message(res, at, seq) == [st |-> "msg", res |-> res, at |-> at, seq |-> seq]
ClosedReply == [st |-> "closed", res |-> Ok, at |-> "", seq |-> 0]

\* No read noted: numbers of commands start at 1.
NoRead == [seq |-> 0]
NoLast == [seq |-> 0, ops |-> << >>, at |-> "", ok |-> FALSE, pre |-> EmptyDb,
           before |-> NoRead]

\* mpsc::Sender::send on the command channel.
Enqueue(q, m) == Append(q, m)

\* TaskChampionStorageBackend::new: no wrapper, no call in progress.  The
\* fields of a call: op ("none", "save", "delete"), stage ("idle", "read",
\* "commit", "done"), the task given, the existing snapshot (an Option),
\* whether read_task returned Ok, the batch built, what the call returned,
\* and the count of calls that went to the wrapper.
NewBackend ==
    [wrapper |-> FALSE, op |-> "none", stage |-> "idle", task |-> NoTask,
     existing |-> << >>, readOk |-> TRUE, ops |-> << >>, ret |-> Ok, jobs |-> 0]

\* The UUIDs a batch names.
BatchUuids(ops) == { ops[i].uuid : i \in { j \in 1..Len(ops) : ops[j].op # "UndoPoint" } }
\* The UUIDs a batch creates.
BatchCreates(ops) == { ops[i].uuid : i \in { j \in 1..Len(ops) : ops[j].op = "Create" } }

\* No such call is in progress.
NoCall == [fn |-> "none"]

InitActor ==
    /\ factory = "start"
    /\ worker = "unspawned"
    /\ handle = NoHandle
    /\ newHandle = NoHandle
    /\ startup = << >>
    /\ senderAlive = TRUE
    /\ queue = << >>
    /\ lock = 0
    /\ pc = [c \in Callers |-> "idle"]
    /\ cur = [c \in Callers |-> NoCmd]
    /\ reply = [c \in Callers |-> EmptyReply]
    /\ result = [c \in Callers |-> Ok]
    /\ stores = [p \in GoodPaths |-> EmptyDb]
    /\ calls = 0
    /\ commits = 0
    /\ faults = 0
    /\ nextSeq = 1
    /\ handled = 0
    /\ acked = {}
    /\ last = NoLast
    /\ lastRead = NoRead
    /\ others = [p \in GoodPaths |-> 0]
    /\ fncall = NoCall

InitCommon == InitActor /\ backend = NewBackend

Init == fpath \in AllPaths /\ InitCommon

(************************* the factory *************************************)
\* thread::Builder::spawn succeeds; the factory goes on to wait for the
\* startup handshake.
FactorySpawn ==
    /\ factory = "start"
    /\ factory' = "wait"
    /\ worker' = "opening"
    /\ UNCHANGED << fpath, handle, newHandle, startup, senderAlive, queue, lock,
                    pc, cur, reply, result, stores, calls, commits, faults, nextSeq,
                    handled, acked, last, lastRead >>
    /\ UNCHANGED << backend, others, fncall >>

\* spawn fails: the factory returns the error and cmd_tx is dropped.
FactorySpawnFail ==
    /\ factory = "start"
    /\ faults < MaxFaults
    /\ faults' = faults + 1
    /\ factory' = "err_spawn"
    /\ senderAlive' = FALSE
    /\ UNCHANGED << fpath, worker, handle, newHandle, startup, queue, lock, pc,
                    cur, reply, result, stores, calls, commits, nextSeq, handled, acked,
                    last, lastRead >>
    /\ UNCHANGED << backend, others, fncall >>

\* The worker opened the store: it keeps the replica, signals success and
\* enters the loop.
WorkerStartOk ==
    /\ worker = "opening"
    /\ fpath \in GoodPaths
    /\ handle' = fpath
    /\ startup' = Append(startup, "ok")
    /\ worker' = "running"
    /\ UNCHANGED << factory, fpath, newHandle, senderAlive, queue, lock, pc, cur,
                    reply, result, stores, calls, commits, faults, nextSeq, handled,
                    acked, last, lastRead >>
    /\ UNCHANGED << backend, others, fncall >>

\* into_storage() failed: the worker sends the error and returns.
WorkerStartFail ==
    /\ worker = "opening"
    /\ fpath \in BadPaths
    /\ startup' = Append(startup, "err")
    /\ worker' = "exited"
    /\ UNCHANGED << factory, fpath, handle, newHandle, senderAlive, queue, lock,
                    pc, cur, reply, result, stores, calls, commits, faults, nextSeq,
                    handled, acked, last, lastRead >>
    /\ UNCHANGED << backend, others, fncall >>

\* Faulty variant: any startup signal is taken for success.
FactoryRecvAnySignal ==
    /\ factory = "wait"
    /\ startup # << >>
    /\ startup' = Tail(startup)
    /\ factory' = "ok"
    /\ UNCHANGED << fpath, worker, handle, newHandle, senderAlive, queue, lock,
                    pc, cur, reply, result, stores, calls, commits, faults,
                    nextSeq, handled, acked, last, lastRead >>
    /\ UNCHANGED << backend, others, fncall >>

\* startup_rx.recv_timeout returns the worker's signal.
FactoryRecv ==
    /\ factory = "wait"
    /\ startup # << >>
    /\ startup' = Tail(startup)
    /\ IF Head(startup) = "ok"
       THEN factory' = "ok" /\ UNCHANGED senderAlive
       ELSE factory' = "err_open" /\ senderAlive' = FALSE
    /\ UNCHANGED << fpath, worker, handle, newHandle, queue, lock, pc, cur,
                    reply, result, stores, calls, commits, faults, nextSeq, handled,
                    acked, last, lastRead >>
    /\ UNCHANGED << backend, others, fncall >>

\* No signal within the timeout: the factory returns the timeout error and
\* cmd_tx is dropped.
FactoryTimeout ==
    /\ factory = "wait"
    /\ startup = << >>
    /\ factory' = "err_timeout"
    /\ senderAlive' = FALSE
    /\ UNCHANGED << fpath, worker, handle, newHandle, startup, queue, lock, pc,
                    cur, reply, result, stores, calls, commits, faults, nextSeq, handled,
                    acked, last, lastRead >>
    /\ UNCHANGED << backend, others, fncall >>

\* Faulty variant: a clone of the command sender outlives the wrapper.
DropWrapperLeaksSender ==
    /\ factory = "ok"
    /\ \A c \in Callers : pc[c] = "idle"
    /\ factory' = "dropped"
    /\ senderAlive' = senderAlive
    /\ UNCHANGED << fpath, worker, handle, newHandle, startup, queue, lock, pc,
                    cur, reply, result, stores, calls, commits, faults, nextSeq, handled,
                    acked, last, lastRead >>
    /\ UNCHANGED << backend, others, fncall >>

\* The owner drops the wrapper, and with it the only command sender.
DropWrapper ==
    /\ factory = "ok"
    /\ \A c \in Callers : pc[c] = "idle"
    /\ factory' = "dropped"
    /\ senderAlive' = FALSE
    /\ UNCHANGED << fpath, worker, handle, newHandle, startup, queue, lock, pc,
                    cur, reply, result, stores, calls, commits, faults, nextSeq, handled,
                    acked, last, lastRead >>
    /\ UNCHANGED << backend, others, fncall >>

(************************* the wrapper's methods ***************************)
\* A caller enters commit_operations, open or read_task: it makes its reply
\* channel and its command.
CallEntry(c, cmd) ==
    /\ factory = "ok"
    /\ pc[c] = "idle"
    /\ calls' = calls + 1
    /\ commits' = IF cmd.kind = "Commit" THEN commits + 1 ELSE commits
    /\ pc' = [pc EXCEPT ![c] = "lock"]
    /\ cur' = [cur EXCEPT ![c] = cmd]
    /\ reply' = [reply EXCEPT ![c] = EmptyReply]
    /\ UNCHANGED << factory, fpath, worker, handle, newHandle, startup,
                    senderAlive, queue, lock, result, stores, faults, nextSeq,
                    handled, acked, last, lastRead >>
    /\ UNCHANGED << others, fncall >>

\* A call made directly on the wrapper.
CallBegin(c, cmd) == CallEntry(c, cmd) /\ UNCHANGED backend

\* self.sender.lock()
CallLock(c) ==
    /\ pc[c] = "lock"
    /\ lock = 0
    /\ lock' = c
    /\ pc' = [pc EXCEPT ![c] = "send"]
    /\ UNCHANGED << factory, fpath, worker, handle, newHandle, startup,
                    senderAlive, queue, cur, reply, result, stores, calls, commits,
                    faults, nextSeq, handled, acked, last, lastRead >>
    /\ UNCHANGED << backend, others, fncall >>

\* The receiver of the command channel lives as long as the worker's closure.
ReceiverAlive == worker \in {"opening", "running", "swapping", "unwinding"}

\* Faulty variant: the result of guard.send is ignored and the method returns Ok
\* when the command could not be sent.
CallSendIgnoresError(c) ==
    /\ pc[c] = "send"
    /\ IF ReceiverAlive
       THEN /\ queue' = Enqueue(queue, [cmd |-> cur[c], caller |-> c, seq |-> nextSeq])
            /\ nextSeq' = nextSeq + 1
            /\ pc' = [pc EXCEPT ![c] = "recv"]
            /\ UNCHANGED << lock, result >>
       ELSE /\ result' = [result EXCEPT ![c] = Ok]
            /\ pc' = [pc EXCEPT ![c] = "idle"]
            /\ lock' = 0
            /\ UNCHANGED << queue, nextSeq >>
    /\ UNCHANGED << factory, fpath, worker, handle, newHandle, startup,
                    senderAlive, cur, reply, stores, calls, commits, faults,
                    handled, acked, last, lastRead >>
    /\ UNCHANGED << backend, others, fncall >>

\* guard.send(cmd): queued while the receiver lives; otherwise the method
\* returns the send error, which drops the guard.
CallSend(c) ==
    /\ pc[c] = "send"
    /\ IF ReceiverAlive
       THEN /\ queue' = Enqueue(queue, [cmd |-> cur[c], caller |-> c, seq |-> nextSeq])
            /\ nextSeq' = nextSeq + 1
            /\ pc' = [pc EXCEPT ![c] = "recv"]
            /\ UNCHANGED << lock, result >>
       ELSE /\ result' = [result EXCEPT ![c] = Err("send failed")]
            /\ pc' = [pc EXCEPT ![c] = "idle"]
            /\ lock' = 0
            /\ UNCHANGED << queue, nextSeq >>
    /\ UNCHANGED << factory, fpath, worker, handle, newHandle, startup,
                    senderAlive, cur, reply, stores, calls, commits, faults, handled,
                    acked, last, lastRead >>
    /\ UNCHANGED << backend, others, fncall >>

\* Faulty variant: the guard outlives the call, so the sender mutex stays locked.
CallRecvKeepsGuard(c) ==
    /\ pc[c] = "recv"
    /\ reply[c].st # "empty"
    /\ result' = [result EXCEPT ![c] =
                    IF reply[c].st = "msg" THEN reply[c].res
                    ELSE Err("no response")]
    /\ pc' = [pc EXCEPT ![c] = "idle"]
    /\ UNCHANGED << factory, fpath, worker, handle, newHandle, startup,
                    senderAlive, queue, lock, cur, reply, stores, calls, commits,
                    faults, nextSeq, handled, acked, last, lastRead >>
    /\ UNCHANGED << backend, others, fncall >>

\* rx.recv() returns: the worker's response, or the receive error when the
\* reply sender was dropped unused.  Returning drops the guard.
CallRecv(c) ==
    /\ pc[c] = "recv"
    /\ reply[c].st # "empty"
    /\ result' = [result EXCEPT ![c] =
                    IF reply[c].st = "msg" THEN reply[c].res
                    ELSE Err("no response")]
    /\ pc' = [pc EXCEPT ![c] = "idle"]
    /\ lock' = 0
    /\ UNCHANGED << factory, fpath, worker, handle, newHandle, startup,
                    senderAlive, queue, cur, reply, stores, calls, commits, faults,
                    nextSeq, handled, acked, last, lastRead >>
    /\ UNCHANGED << backend, others, fncall >>

(************************* the worker **************************************)
\* The worker is blocked in cmd_rx.recv() or about to call it, and a command
\* of the given kind is at the head of the channel.
Receives(kind) ==
    /\ worker = "running"
    /\ queue # << >>
    /\ Head(queue).cmd.kind = kind

\* Faulty variant: a successful commit is not answered.
WorkerCommitAnswersOnlyFailure(storeOk, getOk) ==
    /\ Receives("Commit")
    /\ (storeOk /\ getOk) \/ faults < MaxFaults
    /\ faults' = IF storeOk /\ getOk THEN faults ELSE faults + 1
    /\ LET m == Head(queue)
           db == stores[handle]
       IN  \E gets \in GetResults(m.cmd.ops, getOk) :
             LET tcs == to_taskchampion_operations(db, m.cmd.ops, gets)
             IN  /\ stores' = [stores EXCEPT ![handle] = TcCommit(db, tcs, storeOk)]
                 /\ reply' = IF storeOk THEN reply
                             ELSE [reply EXCEPT ![m.caller] =
                                     Message(Err("commit failed"), handle, m.seq)]
                 /\ acked' = IF storeOk
                             THEN acked \cup { [at |-> handle, uuid |-> u, seq |-> m.seq] :
                                               u \in BatchUuids(m.cmd.ops) }
                             ELSE acked
                 /\ last' = [seq |-> m.seq, ops |-> m.cmd.ops, at |-> handle,
                             ok |-> storeOk, pre |-> db, before |-> lastRead]
    /\ queue' = Tail(queue)
    /\ handled' = handled + 1
    /\ UNCHANGED << factory, fpath, worker, handle, newHandle, startup,
                    senderAlive, lock, pc, cur, result, calls, commits, nextSeq,
                    lastRead >>
    /\ UNCHANGED << backend, others, fncall >>

\* The Commit arm: map the batch against the replica, commit the native
\* operations, answer Ok or the commit error.  storeOk is whether the
\* store accepts the write; getOk is whether every get_task the mapping
\* makes succeeds (a failed one takes the arm's fallback branch).
WorkerCommit(storeOk, getOk) ==
    /\ Receives("Commit")
    /\ (storeOk /\ getOk) \/ faults < MaxFaults
    /\ faults' = IF storeOk /\ getOk THEN faults ELSE faults + 1
    /\ LET m == Head(queue)
           db == stores[handle]
       IN  \E gets \in GetResults(m.cmd.ops, getOk) :
             LET tcs == to_taskchampion_operations(db, m.cmd.ops, gets)
             IN  /\ stores' = [stores EXCEPT ![handle] = TcCommit(db, tcs, storeOk)]
                 /\ reply' = [reply EXCEPT ![m.caller] =
                                Message(IF storeOk THEN Ok ELSE Err("commit failed"),
                                        handle, m.seq)]
                 /\ acked' = IF storeOk
                             THEN acked \cup { [at |-> handle, uuid |-> u, seq |-> m.seq] :
                                               u \in BatchUuids(m.cmd.ops) }
                             ELSE acked
                 /\ last' = [seq |-> m.seq, ops |-> m.cmd.ops, at |-> handle,
                             ok |-> storeOk, pre |-> db, before |-> lastRead]
    /\ queue' = Tail(queue)
    /\ handled' = handled + 1
    /\ UNCHANGED << factory, fpath, worker, handle, newHandle, startup,
                    senderAlive, lock, pc, cur, result, calls, commits, nextSeq,
                    lastRead >>
    /\ UNCHANGED << backend, others, fncall >>

\* Faulty variant: the old replica is given up before the new storage is opened,
\* so a failed open leaves the worker without one.
WorkerOpenStorageDropsReplica ==
    /\ Receives("Open")
    /\ LET m == Head(queue)
       IN  IF m.cmd.path \in GoodPaths
           THEN /\ newHandle' = m.cmd.path
                /\ worker' = "swapping"
                /\ UNCHANGED << queue, reply, handled, handle >>
           ELSE /\ reply' = [reply EXCEPT ![m.caller] =
                               Message(Err("open failed"), handle, m.seq)]
                /\ queue' = Tail(queue)
                /\ handled' = handled + 1
                /\ handle' = NoHandle
                /\ UNCHANGED << newHandle, worker >>
    /\ UNCHANGED << factory, fpath, startup, senderAlive, lock, pc, cur,
                    result, stores, calls, commits, faults, nextSeq, acked, last, lastRead >>
    /\ UNCHANGED << backend, others, fncall >>

\* The Open arm, first half: into_storage() for the new path.  On failure
\* the error is the response and the replica is kept.
WorkerOpenStorage ==
    /\ Receives("Open")
    /\ LET m == Head(queue)
       IN  IF m.cmd.path \in GoodPaths
           THEN /\ newHandle' = m.cmd.path
                /\ worker' = "swapping"
                /\ UNCHANGED << queue, reply, handled >>
           ELSE /\ reply' = [reply EXCEPT ![m.caller] =
                               Message(Err("open failed"), handle, m.seq)]
                /\ queue' = Tail(queue)
                /\ handled' = handled + 1
                /\ UNCHANGED << newHandle, worker >>
    /\ UNCHANGED << factory, fpath, handle, startup, senderAlive, lock, pc, cur,
                    result, stores, calls, commits, faults, nextSeq, acked, last, lastRead >>
    /\ UNCHANGED << backend, others, fncall >>

\* The Open arm, second half: replica = Replica::new(storage) drops the old
\* replica, and Ok is the response.
WorkerOpenReplace ==
    /\ worker = "swapping"
    /\ LET m == Head(queue)
       IN  reply' = [reply EXCEPT ![m.caller] = Message(Ok, newHandle, m.seq)]
    /\ handle' = newHandle
    /\ newHandle' = NoHandle
    /\ worker' = "running"
    /\ queue' = Tail(queue)
    /\ handled' = handled + 1
    /\ UNCHANGED << factory, fpath, startup, senderAlive, lock, pc, cur, result,
                    stores, calls, commits, faults, nextSeq, acked, last, lastRead >>
    /\ UNCHANGED << backend, others, fncall >>

\* The ReadTask arm: all_task_data(), then the task's map converted, or
\* None, or the read error.  readOk is whether the store can be read; the
\* conversion takes the readings of the clock it needs; noted is whether
\* the answer is kept in the history, for behaviours that compare two reads.
WorkerRead(readOk, noted) ==
    /\ Receives("ReadTask")
    /\ readOk \/ faults < MaxFaults
    /\ faults' = IF readOk THEN faults ELSE faults + 1
    /\ LET m == Head(queue)
           db == stores[handle]
       IN  \E nows \in IF readOk THEN ClockReadings(db, m.cmd.id) ELSE { << >> } :
             LET res == IF readOk THEN ReadTask(db, m.cmd.id, nows)
                        ELSE Err("read failed")
             IN  /\ reply' = [reply EXCEPT ![m.caller] = Message(res, handle, m.seq)]
                 /\ lastRead' = IF noted
                                THEN [seq |-> m.seq, id |-> m.cmd.id, res |-> res]
                                ELSE lastRead
    /\ queue' = Tail(queue)
    /\ handled' = handled + 1
    /\ UNCHANGED << factory, fpath, worker, handle, newHandle, startup,
                    senderAlive, lock, pc, cur, result, stores, calls, commits, nextSeq,
                    acked, last >>
    /\ UNCHANGED << backend, others, fncall >>

\* A panic while a command is handled starts unwinding the closure.  The
\* handler's own values go first: the command's reply sender is dropped
\* unused.  The replica and the receiver are still there, and the store's
\* transaction is not committed.
WorkerPanic ==
    /\ worker = "running"
    /\ queue # << >>
    /\ faults < MaxFaults
    /\ faults' = faults + 1
    /\ worker' = "unwinding"
    /\ reply' = [reply EXCEPT ![Head(queue).caller] = ClosedReply]
    /\ UNCHANGED << factory, fpath, handle, newHandle, startup, senderAlive,
                    queue, lock, pc, cur, result, stores, calls, commits, nextSeq,
                    handled, acked, last, lastRead >>
    /\ UNCHANGED << backend, others, fncall >>

\* The unwinding goes on with the closure's values, one drop after another:
\* the replica (the store is closed), then the receiver, and with it every
\* command still in the channel and its reply sender.  Until the receiver
\* is dropped a caller can still send.
WorkerUnwind ==
    /\ worker = "unwinding"
    /\ IF handle # NoHandle
       THEN /\ handle' = NoHandle
            /\ UNCHANGED << worker, queue, reply >>
       ELSE /\ worker' = "panicked"
            /\ reply' = [c \in Callers |->
                           IF \E i \in 1..Len(queue) : queue[i].caller = c
                           THEN ClosedReply ELSE reply[c]]
            /\ queue' = << >>
            /\ UNCHANGED handle
    /\ UNCHANGED << factory, fpath, newHandle, startup, senderAlive, lock, pc,
                    cur, result, stores, calls, commits, faults, nextSeq, handled,
                    acked, last, lastRead >>
    /\ UNCHANGED << backend, others, fncall >>

\* cmd_rx.recv() fails once every sender is dropped and the channel is
\* empty: the loop ends and the replica is dropped.
WorkerExit ==
    /\ worker = "running"
    /\ queue = << >>
    /\ ~senderAlive
    /\ worker' = "exited"
    /\ handle' = NoHandle
    /\ UNCHANGED << factory, fpath, newHandle, startup, senderAlive, queue, lock,
                    pc, cur, reply, result, stores, calls, commits, faults, nextSeq,
                    handled, acked, last, lastRead >>
    /\ UNCHANGED << backend, others, fncall >>

(************************* specifications **********************************)
\* The task caller c creates.
TaskOf(c) == NewTask(c, "d")

\* The batches that create t: build_save_batch(None, t).
SaveNew(t) == build_save_batch(<< >>, t)

\* The commands that commit such a batch.
SaveCmds(t) == { CommitCmd(b) : b \in SaveNew(t) }

\* The calls of the concurrent scenarios, a caller and its command: a
\* commit of the caller's task, a read of any UUID, an open of any path.
ProtoCalls ==
    { call : call \in UNION {
        { << c, cmd >> : cmd \in SaveCmds(TaskOf(c))
                                 \cup { ReadCmd(u) : u \in UUIDs }
                                 \cup { OpenCmd(p) : p \in AllPaths } } :
        c \in Callers } }

WorkerStep ==
    \/ WorkerStartOk
    \/ WorkerStartFail
    \/ \E storeOk, getOk \in BOOLEAN : WorkerCommit(storeOk, getOk)
    \/ WorkerOpenStorage
    \/ WorkerOpenReplace
    \/ \E readOk \in BOOLEAN : WorkerRead(readOk, FALSE)
    \/ WorkerUnwind
    \/ WorkerExit

FactoryStep == FactorySpawn \/ FactoryRecv \/ FactoryTimeout

CallerStep(c) == CallLock(c) \/ CallSend(c) \/ CallRecv(c)

Next ==
    \/ FactoryStep
    \/ FactorySpawnFail
    \/ DropWrapper
    \/ WorkerStep
    \/ WorkerPanic
    \/ \E call \in ProtoCalls :
            calls < MaxCalls /\ CallBegin(call[1], call[2])
    \/ \E c \in Callers : CallerStep(c)

Spec == Init /\ [][Next]_vars

(***************************************************************************)
(* The same threads under a fair scheduler, each caller asking for one     *)
(* command of each kind.                                                   *)
(***************************************************************************)
LiveCalls ==
    { call : call \in UNION {
        { << c, cmd >> : cmd \in SaveCmds(TaskOf(c))
                                 \cup { ReadCmd(c), OpenCmd("p2"), OpenCmd("bad") } } :
        c \in Callers } }

InitLive == fpath \in {"p1", "bad"} /\ InitCommon

NextLive ==
    \/ FactoryStep
    \/ FactorySpawnFail
    \/ DropWrapper
    \/ WorkerStep
    \/ WorkerPanic
    \/ \E call \in LiveCalls :
            calls < MaxCalls /\ CallBegin(call[1], call[2])
    \/ \E c \in Callers : CallerStep(c)

\* The scheduler runs every thread that can take a step; the store
\* operations the worker runs terminate.
FairSpec ==
    /\ InitLive /\ [][NextLive]_vars
    /\ WF_vars(WorkerStep)
    /\ WF_vars(FactoryStep)
    /\ \A c \in Callers : WF_vars(CallerStep(c))

(***************************************************************************)
(* One caller working sequentially on one actor, with the data varied.     *)
(***************************************************************************)
Note(entry, text) == [entry |-> entry, description |-> text]

DataTasks ==
    { [NewTask(1, "milk") EXCEPT !.status = st, !.project = v.project,
                                 !.tags = v.tags, !.depends = v.depends,
                                 !.annotations = v.annotations] :
        st \in Statuses,
        v \in { [project |-> << >>, tags |-> {}, depends |-> {},
                 annotations |-> << >>],
                [project |-> << "home" >>, tags |-> {"a", "b"}, depends |-> {2},
                 annotations |-> << Note("d1", "note") >>] } }

DataBatches ==
    UNION { SaveNew(t) : t \in DataTasks }
    \cup { << AddTag(1, "a") >>, << AddTag(1, "b") >>,
           << RemoveTag(1, "a"), AddTag(1, "b") >>,
           build_delete_batch(1) }

InitData == fpath = "p1" /\ InitCommon

NextData ==
    \/ FactorySpawn
    \/ WorkerStartOk
    \/ FactoryRecv
    \/ \E b \in DataBatches :
            commits < MaxCommits /\ CallBegin(1, CommitCmd(b))
    \/ cur[1].kind # "ReadTask" /\ CallBegin(1, ReadCmd(1))
    \/ CallerStep(1)
    \/ WorkerCommit(TRUE, TRUE)
    \/ WorkerRead(TRUE, FALSE)

SpecData == InitData /\ [][NextData]_vars

(***************************************************************************)
(* One caller committing field operations for a UUID, on a store that may  *)
(* not hold it.                                                            *)
(***************************************************************************)
FieldBatches ==
    { << Delete(1) >>,
      build_delete_batch(1),
      << Update(1, "description", JNull, JString("tea")) >>,
      << UndoPoint, Update(1, "project", JString("home"), JNull) >>,
      << SetField(1, "project", << "home" >>) >>,
      << UnsetField(1, "due") >>,
      << SetField(1, "depends", << "2", "x" >>) >>,
      << SetField(1, "annotations", << "d1", "a\\nb", NL, "x" >>) >>,
      << SetField(1, "recur", << "Pending", "d" >>) >>,
      << AddAnnotation(1, "d1", "x"), AddAnnotation(1, "d1x", "y") >> }
    \cup SaveNew(NewTask(1, "milk"))
    \cup SaveNew([NewTask(1, "tea") EXCEPT
                    !.udas = ("who" :> [type |-> "Number", val |-> << "1" >>])])

NextFields ==
    \/ FactorySpawn
    \/ WorkerStartOk
    \/ FactoryRecv
    \/ \E b \in FieldBatches :
            commits < MaxCommits /\ CallBegin(1, CommitCmd(b))
    \/ cur[1].kind # "ReadTask" /\ CallBegin(1, ReadCmd(1))
    \/ CallerStep(1)
    \/ WorkerCommit(TRUE, TRUE)
    \/ WorkerRead(TRUE, FALSE)

SpecFields == InitData /\ [][NextFields]_vars

(***************************************************************************)
(* One caller reading around commits that may fail: the store may refuse   *)
(* the write and a get_task of the mapping may fail.                       *)
(***************************************************************************)
FaultBatches ==
    SaveNew(NewTask(1, "milk"))
    \cup { << SetField(1, "project", << "home" >>), AddTag(1, "a") >>,
           << AddTag(1, "b") >>,
           build_delete_batch(1),
           << >>, << UndoPoint >> }

NextFault ==
    \/ FactorySpawn
    \/ WorkerStartOk
    \/ FactoryRecv
    \/ \E b \in FaultBatches :
            commits < MaxCommits /\ CallBegin(1, CommitCmd(b))
    \/ \E u \in UUIDs : cur[1].kind # "ReadTask" /\ CallBegin(1, ReadCmd(u))
    \/ CallerStep(1)
    \/ \E storeOk, getOk \in BOOLEAN : WorkerCommit(storeOk, getOk)
    \/ WorkerRead(TRUE, TRUE)

SpecFault == InitData /\ [][NextFault]_vars

(***************************************************************************)
(* The batch builder applied to pairs of tasks.                            *)
(***************************************************************************)
\* Tasks that differ in id, description, status and project.
ScalarTasks ==
    { [NewTask(id, d) EXCEPT !.status = st, !.project = pr] :
        id \in {1, 2}, d \in {"milk", "tea"}, st \in {"Pending", "Completed"},
        pr \in { << >>, << "home" >>, << "work" >> } }

\* Tasks that differ in tags, dependencies and annotations.
CollectionTasks ==
    { [NewTask(1, "milk") EXCEPT !.tags = tg, !.depends = dp, !.annotations = an] :
        tg \in SUBSET {"a", "b"},
        dp \in SUBSET {2, 3},
        an \in { << >>, << Note("d1", "x") >>, << Note("d2", "x") >>,
                 << Note("d1", "x"), Note("d2", "x") >>,
                 << Note("d2", "x"), Note("d1", "x") >>,
                 << Note("d1", "y"), Note("d1", "y") >> } }

BatchTasks == ScalarTasks \cup CollectionTasks

\* save_task or delete_task holds a task and an existing snapshot, whatever
\* the wrapper's read_task gave.
InitBatch ==
    /\ fpath = "p1"
    /\ InitActor
    /\ \E t \in BatchTasks :
       \E e \in { << >> } \cup { << old >> : old \in BatchTasks } :
            backend = [NewBackend EXCEPT !.stage = "input", !.task = t,
                                         !.existing = e]

\* let ops = build_save_batch(existing.as_ref(), _task)
BuildSaveBatch ==
    /\ backend.stage = "input"
    /\ \E ops \in build_save_batch(backend.existing, backend.task) :
           backend' = [backend EXCEPT
                         !.op = "save", !.stage = "built", !.ops = ops]
    /\ UNCHANGED << factory, fpath, worker, handle, newHandle, startup,
                    senderAlive, queue, lock, pc, cur, reply, result, stores,
                    calls, commits, faults, nextSeq, handled, acked, last, lastRead, others, fncall >>

\* let ops = build_delete_batch(_id)
BuildDeleteBatch ==
    /\ backend.stage = "input"
    /\ backend' = [backend EXCEPT
                     !.op = "delete", !.stage = "built",
                     !.ops = build_delete_batch(backend.task.id)]
    /\ UNCHANGED << factory, fpath, worker, handle, newHandle, startup,
                    senderAlive, queue, lock, pc, cur, reply, result, stores,
                    calls, commits, faults, nextSeq, handled, acked, last, lastRead, others, fncall >>

NextBatch == BuildSaveBatch \/ BuildDeleteBatch

SpecBatch == InitBatch /\ [][NextBatch]_vars

(***************************************************************************)
(* The storage backend: save_task and delete_task, with and without an     *)
(* injected wrapper.  The backend's thread is caller 1 of the wrapper.     *)
(***************************************************************************)
\* The tasks given to save_task.
BackendTasks ==
    { [NewTask(1, d) EXCEPT !.tags = tg] :
        d \in {"milk", "tea"}, tg \in { {}, {"a"}, {"9z"} } }
    \cup { [NewTask(1, "milk") EXCEPT !.tags = {"a", "b"}],
           [NewTask(1, "milk") EXCEPT !.project = << "home" >>],
           [NewTask(1, "milk") EXCEPT !.status = "Completed"],
           [NewTask(1, "milk") EXCEPT !.priority = << "H" >>],
           [NewTask(1, "milk") EXCEPT !.due = << "d2" >>] }

\* What load_task finds at db_path: a file SQLite cannot open, a database
\* without the tasks table, a row that does not convert, no row, a row.
DbFiles == { "unopenable", "no_table", "bad_row", "absent", "present" }

NotConfigured ==
    Err("TaskChampion write path not configured: no ReplicaWrapper injected")

\* load_task(id): open_connection()?, prepare()?, query_row().optional()?.
load_task(file, id) ==
    CASE file = "unopenable" -> Err("Failed to open TaskChampion database")
      [] file = "no_table" -> Err("Failed to prepare query")
      [] file = "bad_row" -> Err("Failed to query task")
      [] file = "absent" -> Ok
      [] OTHER -> OkSome(NewTask(id, "stored"))

\* A Result<Option<Task>, _> after unwrap_or_default(): the Option, None
\* for an error.
UnwrapOrDefault(res) == IF res.ok /\ res.found THEN << res.task >> ELSE << >>

\* map_err on the commit's result.
CommitResult(res) ==
    IF res.ok THEN Ok ELSE Err("Failed to commit operations")

BackendFree == backend.stage \in {"idle", "done"}

\* set_replica with the wrapper the factory returned.
SetReplica ==
    /\ factory = "ok"
    /\ ~backend.wrapper
    /\ BackendFree
    /\ backend' = [backend EXCEPT !.wrapper = TRUE]
    /\ UNCHANGED << factory, fpath, worker, handle, newHandle, startup,
                    senderAlive, queue, lock, pc, cur, reply, result, stores,
                    calls, commits, faults, nextSeq, handled, acked, last, lastRead, others, fncall >>

\* save_task with a wrapper, up to replica.read_task(_task.id).
SaveBegin(t) ==
    /\ backend.wrapper
    /\ BackendFree
    /\ backend' = [backend EXCEPT
                     !.op = "save", !.stage = "read", !.task = t,
                     !.existing = << >>, !.readOk = TRUE, !.ops = << >>,
                     !.ret = Ok, !.jobs = backend.jobs + 1]
    /\ CallEntry(1, ReadCmd(t.id))

\* Faulty variant: the existing snapshot is never used.
SaveCommitAlwaysCreates ==
    /\ backend.op = "save"
    /\ backend.stage = "read"
    /\ \E ops \in build_save_batch(<< >>, backend.task) :
           /\ backend' = [backend EXCEPT
                            !.stage = "commit", !.readOk = result[1].ok,
                            !.ops = ops]
           /\ CallEntry(1, CommitCmd(ops))

\* save_task once read_task has returned: unwrap_or_default(), build the
\* batch, replica.commit_operations(&ops).
SaveCommit ==
    /\ backend.op = "save"
    /\ backend.stage = "read"
    /\ LET existing == UnwrapOrDefault(result[1])
       IN  \E ops \in build_save_batch(existing, backend.task) :
               /\ backend' = [backend EXCEPT
                                !.stage = "commit", !.existing = existing,
                                !.readOk = result[1].ok, !.ops = ops]
               /\ CallEntry(1, CommitCmd(ops))

\* save_task once commit_operations has returned.
SaveReturn ==
    /\ backend.op = "save"
    /\ backend.stage = "commit"
    /\ pc[1] = "idle"
    /\ backend' = [backend EXCEPT !.stage = "done", !.ret = CommitResult(result[1])]
    /\ UNCHANGED << factory, fpath, worker, handle, newHandle, startup,
                    senderAlive, queue, lock, pc, cur, reply, result, stores,
                    calls, commits, faults, nextSeq, handled, acked, last, lastRead, others, fncall >>

\* delete_task with a wrapper, up to replica.commit_operations(&ops).
DeleteBegin(id) ==
    /\ backend.wrapper
    /\ BackendFree
    /\ LET ops == build_delete_batch(id)
       IN  /\ backend' = [backend EXCEPT
                            !.op = "delete", !.stage = "commit",
                            !.task = [NoTask EXCEPT !.id = id],
                            !.existing = << >>, !.readOk = TRUE, !.ops = ops,
                            !.ret = Ok, !.jobs = backend.jobs + 1]
           /\ CallEntry(1, CommitCmd(ops))

\* delete_task once commit_operations has returned.
DeleteReturn ==
    /\ backend.op = "delete"
    /\ backend.stage = "commit"
    /\ pc[1] = "idle"
    /\ backend' = [backend EXCEPT !.stage = "done", !.ret = CommitResult(result[1])]
    /\ UNCHANGED << factory, fpath, worker, handle, newHandle, startup,
                    senderAlive, queue, lock, pc, cur, reply, result, stores,
                    calls, commits, faults, nextSeq, handled, acked, last, lastRead, others, fncall >>

\* save_task without a wrapper: self.load_task(_task.id)? first, then the
\* batch, then the configuration error.
SaveNoWrapper(t, file) ==
    /\ ~backend.wrapper
    /\ BackendFree
    /\ LET loaded == load_task(file, t.id)
           existing == UnwrapOrDefault(loaded)
       IN  \E ops \in IF loaded.ok THEN build_save_batch(existing, t)
                       ELSE { << >> } :
               backend' = [backend EXCEPT
                             !.op = "save", !.stage = "done", !.task = t,
                             !.existing = existing, !.readOk = loaded.ok,
                             !.ops = ops,
                             !.ret = IF loaded.ok THEN NotConfigured ELSE loaded]
    /\ UNCHANGED << factory, fpath, worker, handle, newHandle, startup,
                    senderAlive, queue, lock, pc, cur, reply, result, stores,
                    calls, commits, faults, nextSeq, handled, acked, last, lastRead, others, fncall >>

\* delete_task without a wrapper: the batch, then the configuration error.
DeleteNoWrapper(id) ==
    /\ ~backend.wrapper
    /\ BackendFree
    /\ backend' = [backend EXCEPT
                     !.op = "delete", !.stage = "done",
                     !.task = [NoTask EXCEPT !.id = id],
                     !.existing = << >>, !.readOk = TRUE,
                     !.ops = build_delete_batch(id), !.ret = NotConfigured]
    /\ UNCHANGED << factory, fpath, worker, handle, newHandle, startup,
                    senderAlive, queue, lock, pc, cur, reply, result, stores,
                    calls, commits, faults, nextSeq, handled, acked, last, lastRead, others, fncall >>

InitBackend == fpath = "p1" /\ InitCommon

NextBackend ==
    \/ FactorySpawn
    \/ WorkerStartOk
    \/ FactoryRecv
    \/ SetReplica
    \/ \E t \in BackendTasks : commits < MaxCommits /\ SaveBegin(t)
    \/ SaveCommit
    \/ SaveReturn
    \/ commits < MaxCommits /\ DeleteBegin(1)
    \/ DeleteReturn
    \/ \E t \in BackendTasks : \E file \in DbFiles : SaveNoWrapper(t, file)
    \/ DeleteNoWrapper(1)
    \/ CallerStep(1)
    \/ \E storeOk, getOk \in BOOLEAN : WorkerCommit(storeOk, getOk)
    \/ \E readOk \in BOOLEAN : WorkerRead(readOk, FALSE)

SpecBackend == InitBackend /\ [][NextBackend]_vars

(***************************************************************************)
(* Replica handles per path: one actor re-opened by Open commands, and     *)
(* further factory calls, each of which starts an actor of its own.        *)
(***************************************************************************)
MaxOthers == 1

\* A further call of open_taskchampion_replica(p): its worker opens the
\* store at p and keeps the replica.  The factory keeps no record of the
\* paths already open.
FactoryCallOther(p) ==
    /\ others[p] < MaxOthers
    /\ others' = [others EXCEPT ![p] = others[p] + 1]
    /\ UNCHANGED << factory, fpath, worker, handle, newHandle, startup,
                    senderAlive, queue, lock, pc, cur, reply, result, stores,
                    calls, commits, faults, nextSeq, handled, acked, last, lastRead, backend, fncall >>

\* The wrapper of a further factory call is dropped and its worker ends.
DropOther(p) ==
    /\ others[p] > 0
    /\ others' = [others EXCEPT ![p] = others[p] - 1]
    /\ UNCHANGED << factory, fpath, worker, handle, newHandle, startup,
                    senderAlive, queue, lock, pc, cur, reply, result, stores,
                    calls, commits, faults, nextSeq, handled, acked, last, lastRead, backend, fncall >>

\* The replicas and storages alive on a path: those of further actors, the
\* worker's replica, and the storage its Open handler has just opened.
LiveHandles(p) ==
    others[p] + (IF handle = p THEN 1 ELSE 0) + (IF newHandle = p THEN 1 ELSE 0)

NextPaths ==
    \/ FactoryStep
    \/ WorkerStartOk
    \/ WorkerStartFail
    \/ \E p \in AllPaths : calls < MaxCalls /\ CallBegin(1, OpenCmd(p))
    \/ CallerStep(1)
    \/ WorkerOpenStorage
    \/ WorkerOpenReplace
    \/ DropWrapper
    \/ WorkerExit
    \/ \E p \in GoodPaths : FactoryCallOther(p)
    \/ \E p \in GoodPaths : DropOther(p)

SpecPaths == Init /\ [][NextPaths]_vars

(***************************************************************************)
(* Operations as JSON: #[derive(Serialize, Deserialize)] on Operation,     *)
(* serde's externally tagged form.  A unit variant is its name as a        *)
(* string; a struct variant is an object with the name as its one key and  *)
(* the fields as the value.                                                *)
(***************************************************************************)
\* The fields of each struct variant, in the order of their declaration.
VariantFields ==
    [Create |-> << "uuid", "data" >>,
     Update |-> << "uuid", "key", "old", "new" >>,
     SetField |-> << "uuid", "key", "value" >>,
     UnsetField |-> << "uuid", "key" >>,
     AddTag |-> << "uuid", "tag" >>,
     RemoveTag |-> << "uuid", "tag" >>,
     AddAnnotation |-> << "uuid", "entry", "description" >>,
     AddDependency |-> << "uuid", "depends_on" >>,
     RemoveDependency |-> << "uuid", "depends_on" >>,
     Delete |-> << "uuid" >>]

\* The fields of type Uuid and of type serde_json::Value.
UuidFields == {"uuid", "depends_on"}
ValueFields == {"data", "old", "new"}

\* One field serialized: a Uuid as its text, a serde_json::Value as itself,
\* a String or a DateTime as a string.
FieldToJson(k, v) ==
    CASE k \in UuidFields -> JString(ToString(v))
      [] k \in ValueFields -> v
      [] OTHER -> JString(v)

\* Faulty variant: the variant name is left out (an untagged enum).
OpToJsonUntagged(o) ==
    IF o.op = "UndoPoint" THEN JNull
    ELSE JObject([k \in DOMAIN o \ {"op"} |-> FieldToJson(k, o[k])])

\* Serialize for Operation.
OpToJson(o) ==
    IF o.op = "UndoPoint" THEN JString("UndoPoint")
    ELSE JObject(o.op :> JObject([k \in DOMAIN o \ {"op"} |-> FieldToJson(k, o[k])]))

\* What deserializing gives when the document is no Operation.
SerdeError == [op |-> "error"]

\* One field deserialized; << >> when it has the wrong type.  A Value takes
\* any JSON, a Uuid a string that parses as one, a DateTime a string that
\* parses as RFC 3339, a String a string.
FieldFromJson(k, j) ==
    CASE k \in ValueFields -> << j >>
      [] k \in UuidFields ->
            IF j.kind = "string" THEN ParseUuid(j.val[1]) ELSE << >>
      [] k = "entry" ->
            IF j.kind = "string" /\ j.val[1] \in Times THEN << j.val[1] >> ELSE << >>
      [] OTHER -> IF j.kind = "string" THEN << j.val[1] >> ELSE << >>

\* The fields of a struct variant deserialized from its content: from an
\* object by name, fields it does not name missing and fields the variant
\* does not have ignored; from an array by position, of exactly the length
\* of the variant.  << >> marks a field that is missing or has the wrong type.
FieldsFromJson(fields, body) ==
    CASE body.kind = "object" ->
            [i \in 1..Len(fields) |->
                IF fields[i] \in DOMAIN body.val
                THEN FieldFromJson(fields[i], body.val[fields[i]]) ELSE << >>]
      [] body.kind = "array" /\ Len(body.val) = Len(fields) ->
            [i \in 1..Len(fields) |-> FieldFromJson(fields[i], body.val[i])]
      [] OTHER -> << << >> >>

\* Deserialize for Operation: a string names a unit variant; an object with
\* one key names a variant and holds its content, null for a unit variant.
OpFromJson(j) ==
    IF j.kind = "string"
    THEN IF j.val = << "UndoPoint" >> THEN UndoPoint ELSE SerdeError
    ELSE IF j.kind # "object" \/ Cardinality(DOMAIN j.val) # 1 THEN SerdeError
    ELSE LET tag == CHOOSE t \in DOMAIN j.val : TRUE
             body == j.val[tag]
         IN  IF tag = "UndoPoint"
             THEN IF body.kind = "null" THEN UndoPoint ELSE SerdeError
             ELSE IF tag \notin DOMAIN VariantFields THEN SerdeError
             ELSE LET fields == VariantFields[tag]
                      got == FieldsFromJson(fields, body)
                  IN  IF \E i \in 1..Len(got) : got[i] = << >> THEN SerdeError
                      ELSE ("op" :> tag)
                           @@ [k \in { fields[i] : i \in 1..Len(fields) } |->
                                 got[CHOOSE i \in 1..Len(fields) : fields[i] = k][1]]

\* Serialize and Deserialize for Vec<Operation>: a JSON array; one element
\* that fails fails the whole.
BatchToJson(ops) == JArray([i \in 1..Len(ops) |-> OpToJson(ops[i])])
BatchFromJson(j) ==
    IF j.kind # "array" THEN << SerdeError >>
    ELSE LET got == [i \in 1..Len(j.val) |-> OpFromJson(j.val[i])]
         IN  IF \E i \in 1..Len(got) : got[i] = SerdeError THEN << SerdeError >>
             ELSE got

\* Operations of every variant.
SerdeOps ==
    { UndoPoint }
    \cup UNION { create_from_task(t) :
                   t \in { NewTask(1, "milk"),
                           [NewTask(2, "tea") EXCEPT
                               !.tags = {"a", "b"}, !.depends = {2},
                               !.annotations = << Note("d1", "note") >>] } }
    \cup { Create(u, d) : u \in {1, 2}, d \in { JNull, JString("x") } }
    \cup { Update(u, "project", o, n) :
             u \in {1, 2}, o \in { JNull, JString("home") },
             n \in { JNull, JString("work") } }
    \cup { SetField(u, "due", << "d1" >>) : u \in {1, 2} }
    \cup { UnsetField(u, "due") : u \in {1, 2} }
    \cup { AddTag(u, tg) : u \in {1, 2}, tg \in {"a", "9z"} }
    \cup { RemoveTag(u, tg) : u \in {1, 2}, tg \in {"a", "9z"} }
    \cup { AddAnnotation(u, "d1", "x") : u \in {1, 2} }
    \cup { AddDependency(u, d) : u \in {1, 2}, d \in {2, 3} }
    \cup { RemoveDependency(u, d) : u \in {1, 2}, d \in {2, 3} }
    \cup { Delete(u) : u \in {1, 2} }

\* The batches serialized: one operation, or two.
SerdeBatches ==
    { << >> } \cup { << o >> : o \in SerdeOps }
    \cup { << o, p >> : o \in SerdeOps, p \in { UndoPoint, Delete(1), AddTag(1, "a") } }

\* serde_json::to_string(&op) and serde_json::to_string(&ops).
SerializeOps(ops) ==
    /\ fncall.fn = "none"
    /\ fncall' = [fn |-> "serde", stage |-> "serialized", ops |-> ops,
                  one |-> IF Len(ops) = 1 THEN OpToJson(ops[1]) ELSE JNull,
                  all |-> BatchToJson(ops)]
    /\ UNCHANGED << factory, fpath, worker, handle, newHandle, startup,
                    senderAlive, queue, lock, pc, cur, reply, result, stores,
                    calls, commits, faults, nextSeq, handled, acked, last, lastRead,
                    backend, others >>

\* serde_json::from_str of what was written.
DeserializeOps ==
    /\ fncall.fn = "serde"
    /\ fncall.stage = "serialized"
    /\ fncall' = [fn |-> "serde", stage |-> "parsed", ops |-> fncall.ops,
                  one |-> IF Len(fncall.ops) = 1 THEN OpFromJson(fncall.one)
                          ELSE SerdeError,
                  all |-> BatchFromJson(fncall.all)]
    /\ UNCHANGED << factory, fpath, worker, handle, newHandle, startup,
                    senderAlive, queue, lock, pc, cur, reply, result, stores,
                    calls, commits, faults, nextSeq, handled, acked, last, lastRead,
                    backend, others >>

NextSerde == (\E ops \in SerdeBatches : SerializeOps(ops)) \/ DeserializeOps

SpecSerde == InitBackend /\ [][NextSerde]_vars

(***************************************************************************)
(* query_tasks of the backend: filter, then paginate.  usize is modelled   *)
(* with a small width so that its overflow is within reach.                *)
(***************************************************************************)
UsizeMax == 7

\* An arithmetic result on usize: << >> for the panic of a build with
\* overflow checks (the default for debug builds), the wrapped value in a
\* build without them.
Checked(n, build) ==
    IF n \in 0..UsizeMax THEN << n >>
    ELSE IF build = "debug" THEN << >>
    ELSE << n % (UsizeMax + 1) >>

\* Iterator::skip and Iterator::take.
Skip(seq, n) == SubSeq(seq, n + 1, Len(seq))
Take(seq, n) == SubSeq(seq, 1, IF n < Len(seq) THEN n ELSE Len(seq))

\* The closure of tasks.retain: the status filter and the Equals/Exact
\* project filter, with no active context.
Retained(task, query) ==
    /\ query.status # << >> => task.status = query.status[1]
    /\ query.project # << >> => task.project = query.project

\* What load_all_tasks returns from a readable database.
StoredTasks ==
    << [NewTask(1, "milk") EXCEPT !.project = << "home" >>],
       [NewTask(2, "tea") EXCEPT !.status = "Completed"],
       [NewTask(3, "rice") EXCEPT !.project = << "home" >>],
       NewTask(4, "salt") >>

Panicked == [ok |-> FALSE, panic |-> TRUE, tasks |-> << >>, err |-> "panic"]

\* query_tasks(query, None): load_all_tasks()?, retain, then
\* start = offset.unwrap_or(0), end = limit.map(|l| start + l)
\* .unwrap_or(tasks.len()), skip(start).take(end - start).
query_tasks(file, query, build) ==
    IF file # "present"
    THEN [ok |-> FALSE, panic |-> FALSE, tasks |-> << >>,
          err |-> IF file = "unopenable"
                  THEN "Failed to open TaskChampion database"
                  ELSE "Failed to prepare query"]
    ELSE LET tasks == SelectSeq(StoredTasks, LAMBDA t : Retained(t, query))
             start == IF query.offset = << >> THEN 0 ELSE query.offset[1]
             end == IF query.limit = << >> THEN << Len(tasks) >>
                    ELSE Checked(start + query.limit[1], build)
         IN  IF end = << >> THEN Panicked
             ELSE LET n == Checked(end[1] - start, build)
                  IN  IF n = << >> THEN Panicked
                      ELSE [ok |-> TRUE, panic |-> FALSE,
                            tasks |-> Take(Skip(tasks, start), n[1]), err |-> ""]

\* The queries asked.
Queries ==
    { q : q \in
        [status : { << >>, << "Pending" >>, << "Completed" >> },
         project : { << >>, << "home" >> },
         offset : { << >> } \cup { << n >> : n \in {0, 1, 3, 5, UsizeMax} },
         limit : { << >> } \cup { << n >> : n \in {0, 1, 2, UsizeMax} }] }

Builds == { "debug", "release" }

\* A call of query_tasks.
QueryTasks(file, query, build) ==
    /\ fncall.fn = "none"
    /\ fncall' = [fn |-> "query_tasks", file |-> file, query |-> query,
                  build |-> build, ret |-> query_tasks(file, query, build)]
    /\ UNCHANGED << factory, fpath, worker, handle, newHandle, startup,
                    senderAlive, queue, lock, pc, cur, reply, result, stores,
                    calls, commits, faults, nextSeq, handled, acked, last, lastRead,
                    backend, others >>

NextQuery ==
    \E file \in { "unopenable", "no_table", "present" } :
    \E query \in Queries : \E build \in Builds : QueryTasks(file, query, build)

SpecQuery == InitBackend /\ [][NextQuery]_vars

(***************************************************************************)
(* Properties of the actor under concurrent callers (Spec).                *)
(***************************************************************************)
Answered(c) == reply[c].st = "msg"
WorkerGone == worker \in {"exited", "panicked"}

\* C1: no lost writes.  Whenever a caller's commit of its own task has
\* returned Ok, the task is readable in the store the worker committed it
\* to, with the data that caller wrote, whatever the other callers have
\* committed since; and a command that has been sent is in the channel or
\* answered (or its reply sender is dropped), never lost.
C1_NoLostWrites ==
    /\ \A c \in Callers :
          (pc[c] = "idle" /\ cur[c] \in SaveCmds(TaskOf(c)) /\ result[c].ok)
          => \A nows \in ClockReadings(stores[reply[c].at], c) :
                LET r == ReadTask(stores[reply[c].at], c, nows)
                IN  r.found /\ r.task.id = c /\ r.task.description = "d"
    /\ \A c \in Callers :
          pc[c] = "recv"
          => \/ reply[c].st # "empty"
             \/ \E i \in 1..Len(queue) : queue[i].caller = c

\* Witness of C1: every caller has committed its task and got Ok.
C1_Witness ==
    \A c \in Callers :
        pc[c] = "idle" /\ cur[c] \in SaveCmds(TaskOf(c)) /\ result[c].ok

\* C2: reads are ordered with commits by the queue.  Commands are handled in
\* the order they were sent, and a read's answer finds the task exactly when
\* a commit naming it was sent before the read and committed to the same
\* store.
C2_ReadsOrderedWithCommits ==
    /\ \A i \in 1..Len(queue) : queue[i].seq = handled + i
    /\ \A c \in Callers :
          (Answered(c) /\ cur[c].kind = "ReadTask" /\ reply[c].res.ok)
          => (reply[c].res.found
              <=> \E a \in acked : /\ a.at = reply[c].at
                                   /\ a.uuid = cur[c].id
                                   /\ a.seq < reply[c].seq)

\* Witness of C2: a read answered with the task of a commit sent before it.
C2_Witness ==
    \E c \in Callers :
        /\ Answered(c) /\ cur[c].kind = "ReadTask" /\ reply[c].res.found
        /\ \E a \in acked : a.uuid = cur[c].id /\ a.seq < reply[c].seq

\* C4: every call returns.  Under fair scheduling of the threads, a caller
\* inside commit_operations, open or read_task eventually leaves it, and it
\* leaves with the worker's response, or with an error when the command
\* could not be sent or no response came.
C4_CallsReturn ==
    /\ \A c \in Callers : (pc[c] # "idle") ~> (pc[c] = "idle")
    /\ [](\A c \in Callers :
            (pc[c] = "idle" /\ cur[c] # NoCmd)
            => IF reply[c].st = "msg" THEN result[c] = reply[c].res
               ELSE ~result[c].ok)

\* Witness of C4: one caller waits for the sender mutex while its holder
\* waits for the worker's reply.
C4_Witness ==
    \E c, d \in Callers :
        pc[c] = "lock" /\ pc[d] = "recv" /\ lock = d /\ reply[d].st = "empty"

\* C5: disconnection is terminal.  A worker that is gone stays gone, and
\* every call that returns while it is gone returns an error.
C5_DisconnectedIsTerminal ==
    [][ /\ WorkerGone => WorkerGone'
        /\ \A c \in Callers :
              (WorkerGone /\ pc[c] # "idle" /\ pc'[c] = "idle")
              => ~result'[c].ok ]_vars

\* Witness of C5: the worker is gone and a call made afterwards has
\* returned the send error.
C5_Witness ==
    /\ WorkerGone
    /\ \E c \in Callers : pc[c] = "idle" /\ result[c].err = "send failed"

\* C6: a failed command changes nothing in the worker.  The step that
\* answers a command with an error leaves the worker in its loop, with the
\* replica it had and every store as it was.
C6_FailureChangesNothing ==
    [][ \A c \in Callers :
          (reply[c].st = "empty" /\ reply'[c].st = "msg" /\ ~reply'[c].res.ok)
          => /\ worker' = "running"
             /\ handle' = handle
             /\ handle' # NoHandle
             /\ newHandle' = NoHandle
             /\ stores' = stores ]_vars

\* Witness of C6: a command was answered with an error and the worker is in
\* its loop holding a replica.
C6_Witness ==
    \E c \in Callers :
        /\ Answered(c) /\ ~reply[c].res.ok
        /\ worker = "running" /\ handle # NoHandle

\* C7: the factory's handshake.  A wrapper exists only for a worker that
\* opened its store and signalled it, and right after the factory returns
\* the worker is in its loop holding the replica; when the store cannot be
\* opened there is never a wrapper, and the worker never holds a replica nor
\* handles a command; the open error is returned only for a worker that
\* failed to open; an error return leaves no command sender; and a waiting
\* factory can always go on (the signal or the timeout).
C7_FactoryHandshake ==
    /\ factory \in {"ok", "dropped"}
       => /\ fpath \in GoodPaths
          /\ worker \notin {"unspawned", "opening"}
          /\ worker \in {"running", "swapping"} => handle # NoHandle
    /\ (factory = "ok" /\ calls = 0) => (worker = "running" /\ handle = fpath)
    /\ fpath \in BadPaths
       => /\ factory \notin {"ok", "dropped"}
          /\ worker \in {"unspawned", "opening", "exited"}
          /\ handle = NoHandle
          /\ handled = 0
    /\ factory = "err_open" => (fpath \in BadPaths /\ worker = "exited")
    /\ factory \in {"err_open", "err_timeout", "err_spawn"} => ~senderAlive
    /\ factory = "wait" => ENABLED FactoryStep

\* Witness of C7: the factory has returned the wrapper.
C7_Witness == factory = "ok" /\ calls = 0 /\ handle = fpath

(***************************************************************************)
(* Properties of what is written and read back (SpecData).                 *)
(***************************************************************************)
\* The caller's read of task 1 was answered after the last commit.
\* What read_task gives for a record, every reading of the clock being
\* "t1".  The fields compared with it below are stored ones, the same at
\* any reading.
Stored(db, id) ==
    ReadTask(db, id, IF id \in DOMAIN db
                     THEN [i \in 1..ClockReads(db[id]) |-> "t1"] ELSE << >>)

ReadAfterLast ==
    /\ Answered(1) /\ cur[1] = ReadCmd(1) /\ reply[1].res.ok
    /\ last.ok /\ reply[1].seq > last.seq

\* C8: create then read round trip.  After [UndoPoint, create_from_task(t)]
\* is committed, read_task(t.id) returns a task with the id, description,
\* project, status and tags of t, for every t and every status.
C8_CreateReadRoundTrip ==
    \A t \in DataTasks :
        (ReadAfterLast /\ last.ops \in SaveNew(t))
        => /\ reply[1].res.found
           /\ reply[1].res.task.id = t.id
           /\ reply[1].res.task.description = t.description
           /\ reply[1].res.task.project = t.project
           /\ reply[1].res.task.status = t.status
           /\ reply[1].res.task.tags = t.tags

\* C9: tag operations are visible.  After [AddTag a] is committed for an
\* existing task without tags, read_task returns the tags {a}.
C9_AddTagVisible ==
    (/\ ReadAfterLast /\ last.ops = << AddTag(1, "a") >>
     /\ Stored(last.pre, 1).found
     /\ Stored(last.pre, 1).task.tags = {})
    => (reply[1].res.found /\ reply[1].res.task.tags = {"a"})

\* C10: Delete is a logical delete.  After [UndoPoint, Delete] is committed
\* for an existing task, read_task returns the task, with status Deleted
\* and its description, project and tags as before.
C10_DeleteIsLogical ==
    (ReadAfterLast /\ last.ops = build_delete_batch(1) /\ Stored(last.pre, 1).found)
    => LET before == Stored(last.pre, 1).task
           after == reply[1].res
       IN  /\ after.found
           /\ after.task.status = "Deleted"
           /\ after.task.id = before.id
           /\ after.task.description = before.description
           /\ after.task.project = before.project
           /\ after.task.tags = before.tags

\* Witness of C10: a task with a project and tags, not deleted before, was
\* deleted and then read.
C10_Witness ==
    /\ ReadAfterLast /\ last.ops = build_delete_batch(1)
    /\ Stored(last.pre, 1).found
    /\ Stored(last.pre, 1).task.status # "Deleted"
    /\ Stored(last.pre, 1).task.project = << "home" >>
    /\ Stored(last.pre, 1).task.tags = {"a", "b"}

(***************************************************************************)
(* Properties of the batch builder (SpecBatch).                            *)
(***************************************************************************)
\* The number of operations of a batch that satisfy a condition.
Count(ops, P(_)) == Cardinality({ i \in 1..Len(ops) : P(ops[i]) })

\* A save batch was built over an existing snapshot.
BuiltDiff ==
    backend.stage = "built" /\ backend.op = "save" /\ backend.existing # << >>

\* C11: every built batch starts with its only UndoPoint.  A save batch for
\* a task without snapshot is [UndoPoint, Create] for the task's id, a save
\* batch over a snapshot is [UndoPoint] and the diff (nothing more when the
\* task is unchanged), a delete batch is [UndoPoint, Delete].
C11_BatchShape ==
    backend.stage = "built"
    => LET ops == backend.ops
           t == backend.task
       IN  /\ Len(ops) >= 1 /\ ops[1] = UndoPoint
           /\ Count(ops, LAMBDA o : o.op = "UndoPoint") = 1
           /\ (backend.op = "save" /\ backend.existing = << >>)
              => /\ Len(ops) = 2
                 /\ ops[2].op = "Create" /\ ops[2].uuid = t.id
                 /\ ops[2].data \in TaskJson(t)
           /\ BuiltDiff
              => /\ Tail(ops) \in compute_update_ops(backend.existing[1], t)
                 /\ backend.existing[1] = t => Len(ops) = 1
           /\ backend.op = "delete" => ops = << UndoPoint, Delete(t.id) >>

\* Witness of C11: a save batch was built for an unchanged task.
C11_Witness == BuiltDiff /\ backend.existing[1] = backend.task

\* C12: tags and dependencies are diffed as sets.  The batch has one AddTag
\* for each tag only the new task has, one RemoveTag for each tag only the
\* old task has, and no other tag operation; and the same for dependencies.
C12_SetDiffs ==
    BuiltDiff
    => LET ops == backend.ops
           old == backend.existing[1]
           new == backend.task
           n(kind, field, v) ==
               Count(ops, LAMBDA o : o.op = kind /\ o.uuid = old.id /\ o[field] = v)
       IN  /\ \A t \in new.tags \ old.tags : n("AddTag", "tag", t) = 1
           /\ \A t \in old.tags \ new.tags : n("RemoveTag", "tag", t) = 1
           /\ Count(ops, LAMBDA o : o.op \in {"AddTag", "RemoveTag"})
              = Cardinality(new.tags \ old.tags) + Cardinality(old.tags \ new.tags)
           /\ \A d \in new.depends \ old.depends :
                 n("AddDependency", "depends_on", d) = 1
           /\ \A d \in old.depends \ new.depends :
                 n("RemoveDependency", "depends_on", d) = 1
           /\ Count(ops, LAMBDA o : o.op \in {"AddDependency", "RemoveDependency"})
              = Cardinality(new.depends \ old.depends)
                + Cardinality(old.depends \ new.depends)

\* Witness of C12: one batch adds and removes a tag and a dependency.
C12_Witness ==
    /\ BuiltDiff
    /\ \A kind \in {"AddTag", "RemoveTag", "AddDependency", "RemoveDependency"} :
          Count(backend.ops, LAMBDA o : o.op = kind) = 1

\* C13: annotations are diffed append-only.  The batch has an AddAnnotation
\* for every annotation of the new task that matches none of the old one in
\* entry and description, and no operation for an annotation only the old
\* task has.
C13_AnnotationsAppendOnly ==
    BuiltDiff
    => LET ops == backend.ops
           old == backend.existing[1]
           new == backend.task
           fresh == SelectSeq(new.annotations, LAMBDA a : ~HasAnnotation(old, a))
           adds == SelectSeq(ops, LAMBDA o : o.op = "AddAnnotation")
       IN  /\ Len(adds) = Len(fresh)
           /\ \A i \in 1..Len(adds) :
                 adds[i] = AddAnnotation(old.id, fresh[i].entry, fresh[i].description)
           /\ \A i \in 1..Len(ops) :
                 ops[i].op \in {"UndoPoint", "Update", "AddTag", "RemoveTag",
                                "AddDependency", "RemoveDependency", "AddAnnotation"}
           /\ [old EXCEPT !.annotations = << >>] = [new EXCEPT !.annotations = << >>]
              => Len(ops) = 1 + Len(fresh)

\* Witness of C13: the new task lacks an annotation of the old one and has
\* one the old task lacks.
C13_Witness ==
    /\ BuiltDiff
    /\ \E i \in 1..Len(backend.existing[1].annotations) :
          ~HasAnnotation(backend.task, backend.existing[1].annotations[i])
    /\ Count(backend.ops, LAMBDA o : o.op = "AddAnnotation") = 1

\* C14: description, project and status are diffed with Update.  The batch
\* has one Update, for the old task's id and with the old and the new value,
\* for each of the three fields that differs, and no other Update.
C14_ScalarUpdates ==
    BuiltDiff
    => LET ops == backend.ops
           old == backend.existing[1]
           new == backend.task
           updates == SelectSeq(ops, LAMBDA o : o.op = "Update")
           want == (IF old.description # new.description
                    THEN << Update(old.id, "description", JString(old.description),
                                   JString(new.description)) >> ELSE << >>)
                   \o (IF old.project # new.project
                       THEN << Update(old.id, "project", JOption(old.project),
                                      JOption(new.project)) >> ELSE << >>)
                   \o (IF old.status # new.status
                       THEN << Update(old.id, "status", JString(old.status),
                                      JString(new.status)) >> ELSE << >>)
       IN  /\ { updates[i] : i \in 1..Len(updates) } = { want[i] : i \in 1..Len(want) }
           /\ Len(updates) = Len(want)
           /\ old = new => Tail(ops) = << >>

\* Witness of C14: the three fields differ, between tasks of different ids,
\* one of them without project.
C14_Witness ==
    /\ BuiltDiff
    /\ backend.existing[1].id # backend.task.id
    /\ backend.task.project = << >>
    /\ Count(backend.ops, LAMBDA o : o.op = "Update") = 3

(***************************************************************************)
(* Properties of the storage backend (SpecBackend).                        *)
(***************************************************************************)
\* The snapshot read_task gives for the saved task from the store as it
\* was when the call's commit was handled, the clock readings nows: None
\* after a failed read.
ExistingAtCommit(nows) ==
    IF backend.readOk
    THEN UnwrapOrDefault(ReadTask(last.pre, backend.task.id, nows))
    ELSE << >>

\* The call on the backend went through the wrapper and has returned.
ReturnedFrom(op) ==
    backend.op = op /\ backend.stage = "done" /\ backend.jobs > 0

\* C15: with a wrapper injected, save_task(t) commits exactly one batch,
\* build_save_batch(existing, t), existing being what read_task(t.id) gave
\* and absent after a read error: [UndoPoint, Create] for a task the store
\* does not hold, [UndoPoint] and the diff for one it holds; it returns Ok
\* exactly when the commit did.  delete_task(id) commits exactly
\* build_delete_batch(id).
C15_BackendCommitsOneBatch ==
    /\ backend.jobs > 0 =>
          commits = IF backend.stage = "read" THEN backend.jobs - 1
                    ELSE backend.jobs
    /\ ReturnedFrom("save") =>
          /\ last.seq = nextSeq - 1
          /\ \A nows \in ClockReadings(last.pre, backend.task.id) :
                last.ops \in build_save_batch(ExistingAtCommit(nows), backend.task)
          /\ backend.task.id \notin DOMAIN last.pre =>
                \E op \in create_from_task(backend.task) :
                    last.ops = << UndoPoint, op >>
          /\ backend.task.id \in DOMAIN last.pre /\ backend.readOk =>
                \A nows \in ClockReadings(last.pre, backend.task.id) :
                    \E diff \in compute_update_ops(
                                  TaskFromMap(backend.task.id,
                                              last.pre[backend.task.id], nows),
                                  backend.task) :
                        last.ops = << UndoPoint >> \o diff
          /\ backend.ret.ok <=> last.ok
    /\ ReturnedFrom("delete") =>
          /\ last.seq = nextSeq - 1
          /\ last.ops = build_delete_batch(backend.task.id)
          /\ backend.ret.ok <=> last.ok

\* A save of a task the store holds, differing from it, has returned Ok.
C15_Witness ==
    /\ ReturnedFrom("save")
    /\ backend.task.id \in DOMAIN last.pre
    /\ backend.readOk
    /\ Len(last.ops) > 1
    /\ backend.ret.ok

\* C16: without a wrapper, save_task and delete_task never return Ok,
\* never commit, and fail with the "write path not configured" error for
\* every task and every state of the database file.
C16_NotConfiguredAlways ==
    /\ (~backend.wrapper => commits = 0 /\ last = NoLast)
    /\ (~backend.wrapper /\ backend.stage = "done" =>
            /\ ~backend.ret.ok
            /\ backend.ret = NotConfigured)

\* What does hold without a wrapper: no call returns Ok and none commits;
\* delete_task fails with the configuration error, and save_task does
\* when load_task succeeded and with load_task's error otherwise.
C16_NeverOkNeverCommits ==
    ~backend.wrapper =>
        /\ commits = 0
        /\ last = NoLast
        /\ stores = [p \in GoodPaths |-> EmptyDb]
        /\ backend.stage = "done" =>
              /\ ~backend.ret.ok
              /\ backend.op = "delete" => backend.ret = NotConfigured
              /\ backend.op = "save" =>
                    backend.ret = IF backend.readOk THEN NotConfigured
                                  ELSE Err(backend.ret.err)

\* save_task without a wrapper has returned an error of load_task.
C16_LoadErrorReturned ==
    /\ ~backend.wrapper
    /\ backend.op = "save"
    /\ backend.stage = "done"
    /\ backend.ret = Err("Failed to prepare query")

(***************************************************************************)
(* Properties of read_task (Spec).                                         *)
(***************************************************************************)
\* C17: read_task for a UUID the store has no record of answers Ok(None),
\* not an error; when the store read fails it answers an error, never a
\* task.  Stated of every step in which the worker answers a ReadTask.
C17_AbsentIsNoneFailureIsError ==
    [][ Receives("ReadTask") /\ handled' = handled + 1 =>
            LET m == Head(queue)
                answer == reply'[m.caller]
            IN  /\ answer.st = "msg"
                /\ faults' = faults /\ m.cmd.id \notin DOMAIN stores[handle] =>
                      answer.res = Ok
                /\ faults' > faults =>
                      ~answer.res.ok /\ ~answer.res.found /\ answer.res.err # ""
      ]_vars

\* One caller holds Ok(None) for a UUID the store does not have and
\* another the error of a failed read.
C17_Witness ==
    \E c, d \in Callers :
        /\ cur[c].kind = "ReadTask" /\ Answered(c)
        /\ cur[c].id \notin DOMAIN stores[reply[c].at]
        /\ reply[c].res = Ok
        /\ cur[d].kind = "ReadTask" /\ Answered(d)
        /\ reply[d].res = Err("read failed")

\* The batch the worker handled last has a tag operation whose tag name the
\* store does not accept.
RejectedTagIn(ops) ==
    \E i \in 1..Len(ops) :
        /\ ops[i].op \in {"AddTag", "RemoveTag"}
        /\ ops[i].tag \in UnparsableTags \cup SyntheticTags

\* C18: no operation swallows an error and goes on with a default: a
\* save_task whose read_task failed, or whose batch has a tag name the
\* store rejects, returns an error.
C18_NoSwallowedError ==
    ReturnedFrom("save") =>
        /\ ~backend.readOk => ~backend.ret.ok
        /\ RejectedTagIn(last.ops) => ~backend.ret.ok

\* save_task returned Ok although its batch had a tag the store rejects and
\* the tag was not written.
C18_RejectedTagSkipped ==
    /\ ReturnedFrom("save")
    /\ backend.readOk
    /\ RejectedTagIn(last.ops)
    /\ backend.ret.ok
    /\ stores[last.at] = last.pre

(***************************************************************************)
(* Properties of replica ownership (SpecPaths).                            *)
(***************************************************************************)
\* C19: at any time there is at most one live replica handle per store
\* path, for every sequence of factory calls and Open commands, two
\* factory calls for one path included.
C19_OneHandlePerPath == \A p \in GoodPaths : LiveHandles(p) <= 1

\* Two factory calls for one path have both returned a wrapper, and both
\* workers hold a replica on it.
C19_TwoActorsOnePath ==
    /\ factory = "ok"
    /\ worker = "running"
    /\ handle = fpath
    /\ others[fpath] >= 1

\* Handling Open for the path it already has, the worker holds the new
\* storage and the old replica at once.
C19_OpenHoldsTwo ==
    /\ worker = "swapping"
    /\ newHandle = handle
    /\ others[handle] = 0

(***************************************************************************)
(* Properties of failed and no-op commits (SpecFault).                     *)
(***************************************************************************)
\* Two answered reads of one UUID with exactly the last commit between
\* them: the commands of the one caller are numbered as they are sent.
ReadBeforeAndAfterLast ==
    /\ last.seq > 1
    /\ last.before.seq = last.seq - 1 /\ last.before.res.ok
    /\ lastRead.seq = last.seq + 1 /\ lastRead.res.ok
    /\ lastRead.id = last.before.id

\* A read result without the timestamps read_task takes from the clock:
\* the entry of a record that stores no valid one, and the entry of an
\* annotation line that carries no timestamp.
Timeless(res) ==
    LET clock(e) == IF e \in Nows THEN "clock" ELSE e
    IN  IF ~res.found THEN res
        ELSE [res EXCEPT !.task =
                [res.task EXCEPT
                    !.entry = clock(res.task.entry),
                    !.annotations =
                        [i \in 1..Len(res.task.annotations) |->
                            [res.task.annotations[i] EXCEPT
                                !.entry = clock(res.task.annotations[i].entry)]]]]

\* A commit answered with an error lies between two reads of a UUID of
\* its batch.
FailedThenRead ==
    /\ ReadBeforeAndAfterLast
    /\ ~last.ok
    /\ lastRead.id \in BatchUuids(last.ops)

C3_InvisibleButForClock ==
    /\ (last.seq > 0 /\ ~last.ok) => stores[last.at] = last.pre
    /\ FailedThenRead => Timeless(lastRead.res) = Timeless(last.before.res)

\* The batch has no mutating operation.
NoOp(ops) == ops \in { << >>, << UndoPoint >> }

\* A commit of a no-op batch that was answered Ok lies between two reads.
NoOpThenRead ==
    /\ ReadBeforeAndAfterLast
    /\ last.ok
    /\ NoOp(last.ops)

\* The worker handles the commit of a no-op batch and the store accepts
\* the write.
NoOpHandled ==
    /\ Receives("Commit")
    /\ NoOp(Head(queue).cmd.ops)
    /\ handled' = handled + 1
    /\ faults' = faults

\* C20: committing a batch with no mutating operation, the empty batch or
\* [UndoPoint] alone, returns Ok, and read_task returns for every UUID
\* after it what it returned before it.
C20_NoOpBatchAccepted ==
    /\ [][NoOpHandled => reply'[Head(queue).caller].res = Ok]_vars
    /\ [](NoOpThenRead => lastRead.res = last.before.res)

\* [UndoPoint] alone was committed with Ok between two reads that found
\* the same record, and the reads differ.
C20_ReadsDifferAfterNoOp ==
    /\ NoOpThenRead
    /\ last.ops = << UndoPoint >>
    /\ last.before.res.found /\ lastRead.res.found
    /\ lastRead.res # last.before.res
    /\ stores[last.at] = last.pre

\* What does hold of a no-op batch: it is answered Ok whenever the store
\* accepts the write, the store's tasks are as before, and the reads
\* around it agree in everything but the timestamps taken from the clock.
C20_AcceptedUnchangedButForClock ==
    /\ [][NoOpHandled => /\ reply'[Head(queue).caller].res = Ok
                         /\ stores' = stores]_vars
    /\ [](NoOpThenRead => Timeless(lastRead.res) = Timeless(last.before.res))

(***************************************************************************)
(* Properties of the Operation encoding (SpecSerde).                       *)
(***************************************************************************)
\* C21: every Operation variant, and every list of operations, serializes
\* to JSON and deserializes back to a value equal to the original.
C21_SerdeRoundTrip ==
    fncall.fn = "serde" /\ fncall.stage = "parsed" =>
        /\ fncall.all = fncall.ops
        /\ Len(fncall.ops) = 1 => fncall.one = fncall.ops[1]

\* RemoveDependency, which differs from AddDependency by its name alone,
\* has been written and read back.
C21_Witness ==
    /\ fncall.fn = "serde"
    /\ fncall.stage = "parsed"
    /\ fncall.ops = << RemoveDependency(1, 2) >>
    /\ fncall.one.op = "RemoveDependency"

(***************************************************************************)
(* Properties of the worker loop (Spec).                                   *)
(***************************************************************************)
\* C22: the worker handles commands one at a time in the order received:
\* taking a command from the channel it answers that command's reply
\* channel once, and no channel is answered otherwise; while the Open
\* handler is between its two halves no other command is taken.
C22_OneResponsePerCommand ==
    [][ /\ handled' = handled + 1 =>
              LET m == Head(queue)
              IN  /\ queue' = Tail(queue)
                  /\ m.seq = handled'
                  /\ reply[m.caller].st = "empty"
                  /\ reply'[m.caller].st = "msg"
                  /\ reply'[m.caller].seq = m.seq
                  /\ \A c \in Callers \ {m.caller} : reply'[c] = reply[c]
        /\ handled' = handled =>
              \A c \in Callers : reply'[c] = reply[c] \/ reply'[c].st # "msg"
        /\ handled' \in {handled, handled + 1}
        /\ worker = "swapping" /\ worker' = "swapping" =>
              handled' = handled /\ Head(queue') = Head(queue)
      ]_vars

\* Two commands of two callers have been answered, in the order sent.
C22_Witness ==
    /\ handled = 2
    /\ \E c, d \in Callers :
          /\ c # d
          /\ Answered(c) /\ reply[c].seq = 1
          /\ Answered(d) /\ reply[d].seq = 2

\* The tag operation at position i of the batch is the last one of the
\* batch for its task and tag.
LastForTag(ops, i) ==
    \A j \in (i + 1)..Len(ops) :
        ~(ops[j].op \in {"AddTag", "RemoveTag", "Delete", "Create"}
          /\ ops[j].uuid = ops[i].uuid)

\* C23: whenever commit_operations returns Ok every operation of the batch
\* has been applied to the store, none skipped: after an Ok commit the
\* store holds every tag the batch added.
C23_EveryOperationApplied ==
    last.ok =>
        \A i \in 1..Len(last.ops) :
            last.ops[i].op = "AddTag" /\ LastForTag(last.ops, i) =>
                /\ last.ops[i].uuid \in DOMAIN stores[last.at]
                /\ TagKey(last.ops[i].tag) \in DOMAIN stores[last.at][last.ops[i].uuid]

\* An Ok commit whose batch added a tag to a task the store holds, after
\* which the store has no such tag.
C23_AddTagNotStored ==
    /\ last.ok
    /\ \E i \in 1..Len(last.ops) :
          /\ last.ops[i].op = "AddTag"
          /\ last.ops[i].uuid \in DOMAIN last.pre
          /\ TagKey(last.ops[i].tag) \notin DOMAIN stores[last.at][last.ops[i].uuid]

\* C24: while handling Open the worker never holds two open store handles
\* at once, and after a successful Open it holds exactly the handle opened
\* at the new path.
C24_NeverTwoHandles ==
    /\ ~(handle # NoHandle /\ newHandle # NoHandle)
    /\ \A c \in Callers :
          cur[c].kind = "Open" /\ Answered(c) /\ reply[c].res.ok
          /\ reply[c].seq = handled /\ worker = "running" =>
                handle = cur[c].path /\ newHandle = NoHandle

\* The Open handler has opened the storage at the new path and still has
\* the replica of the old one.
C24_SwappingHoldsBoth ==
    /\ worker = "swapping"
    /\ handle = "p1"
    /\ newHandle = "p2"

(***************************************************************************)
(* Properties of the wrapper's sender mutex (Spec).                        *)
(***************************************************************************)
\* C25: a caller has released the sender mutex before it blocks waiting
\* for the reply.
C25_LockReleasedBeforeWait ==
    \A c \in Callers : pc[c] = "recv" => lock # c

\* One caller waits for its reply holding the mutex while another waits
\* for the mutex; no second command is ever in the channel.
C25_WaitingWithLock ==
    \E c, d \in Callers :
        /\ pc[c] = "recv" /\ lock = c /\ reply[c].st = "empty"
        /\ pc[d] = "lock"
        /\ Len(queue) = 1

(***************************************************************************)
(* Properties of query_tasks (SpecQuery).                                  *)
(***************************************************************************)
\* The filtered tasks of the call.
Filtered ==
    SelectSeq(StoredTasks, LAMBDA t : Retained(t, fncall.query))

\* The filtered tasks from position offset on, at most limit of them.
Page ==
    LET start == IF fncall.query.offset = << >> THEN 0 ELSE fncall.query.offset[1]
        keep == { i \in 1..Len(Filtered) :
                    /\ i > start
                    /\ fncall.query.limit # << >> => i <= start + fncall.query.limit[1] }
    IN  SelectSeq(Filtered, LAMBDA t : \E i \in keep : Filtered[i] = t)

\* C26: query_tasks paginates after filtering: for every offset and limit
\* the result is the filtered sequence without its first offset tasks and
\* cut to limit tasks, and the call does not fail or overflow.
C26_PaginatesAfterFilter ==
    fncall.fn = "query_tasks" /\ fncall.file = "present" =>
        /\ ~fncall.ret.panic
        /\ fncall.ret.ok
        /\ fncall.ret.tasks = Page

\* No limit and an offset beyond the filtered tasks, in a build with
\* overflow checks: the call panicked.
C26_OffsetBeyondEndPanics ==
    /\ fncall.fn = "query_tasks"
    /\ fncall.file = "present"
    /\ fncall.build = "debug"
    /\ fncall.query.limit = << >>
    /\ fncall.query.offset # << >>
    /\ fncall.query.offset[1] > Len(Filtered)
    /\ fncall.ret.panic

\* save_task returned Ok for a task the store held and read_task had
\* found.
SavedUpdate ==
    /\ ReturnedFrom("save")
    /\ backend.ret.ok
    /\ backend.readOk
    /\ backend.task.id \in DOMAIN last.pre

\* What read_task gives for the saved task after the save.
ReadBack == Stored(stores[last.at], backend.task.id)

\* C27: an update saved through the backend is readable back: after
\* save_task(new) returned Ok for a task the store already held,
\* read_task(new.id) gives new's description, project, status, priority
\* and due.
C27_UpdateReadBack ==
    SavedUpdate =>
        /\ ReadBack.found
        /\ ReadBack.task.description = backend.task.description
        /\ ReadBack.task.project = backend.task.project
        /\ ReadBack.task.status = backend.task.status
        /\ ReadBack.task.priority = backend.task.priority
        /\ ReadBack.task.due = backend.task.due

\* A task stored as Pending was saved as Completed with Ok and reads back
\* as Pending.
C27_StatusUpdateLost ==
    /\ SavedUpdate
    /\ backend.task.status = "Completed"
    /\ Stored(last.pre, backend.task.id).task.status = "Pending"
    /\ ReadBack.task.status = "Pending"

\* C28: user-defined attributes survive the create/read round trip without
\* additions: after [UndoPoint, create_from_task(t)] is committed on a store
\* without the task, read_task(t.id) gives a task whose udas have exactly
\* the keys of t.udas.
C28_UdasWithoutAdditions ==
    \A t \in DataTasks :
        /\ ReadAfterLast
        /\ last.ops \in SaveNew(t)
        /\ t.id \notin DOMAIN last.pre
        => /\ reply[1].res.found
           /\ DOMAIN reply[1].res.task.udas = DOMAIN t.udas

\* A task without user-defined attributes was created and read back with
\* the attribute "urgency".
C28_UrgencyReadAsUda ==
    /\ ReadAfterLast
    /\ last.ops \in SaveNew(NewTask(1, "milk"))
    /\ 1 \notin DOMAIN last.pre
    /\ reply[1].res.found
    /\ DOMAIN reply[1].res.task.udas = {"urgency"}
    /\ reply[1].res.task.udas["urgency"].type = "Number"

(***************************************************************************)
(* Properties of field operations on absent tasks (SpecFields).            *)
(***************************************************************************)
\* The last batch handled was a Delete, Update, SetField or UnsetField,
\* alone or after an undo point, for a UUID the store did not hold.
FieldOpOnAbsent ==
    /\ last.ok
    /\ last.ops # << >>
    /\ last.ops[Len(last.ops)].op \in {"Delete", "Update", "SetField", "UnsetField"}
    /\ last.ops[Len(last.ops)].uuid \notin DOMAIN last.pre

\* C29: committing Delete, Update, SetField or UnsetField for a UUID
\* without a record creates the record: the mapping emits a create for the
\* UUID before the field write, and a following read_task gives Some task,
\* with status Deleted after a Delete.
C29_FieldOpCreatesRecord ==
    FieldOpOnAbsent =>
        LET o == last.ops[Len(last.ops)]
            tcs == OpToTc(last.pre, o, TRUE)
        IN  /\ tcs[1] = TcCreate(o.uuid)
            /\ Len(tcs) = 2 /\ tcs[2].tc = "Update" /\ tcs[2].uuid = o.uuid
            /\ o.uuid \in DOMAIN stores[last.at]
            /\ Stored(stores[last.at], o.uuid).found
            /\ o.op = "Delete" =>
                  Stored(stores[last.at], o.uuid).task.status = "Deleted"
            /\ ReadAfterLast =>
                  /\ reply[1].res.found
                  /\ o.op = "Delete" => reply[1].res.task.status = "Deleted"

\* UnsetField alone was committed for a task the store did not hold and
\* the task was then read.
C29_Witness ==
    /\ FieldOpOnAbsent
    /\ last.ops = << UnsetField(1, "due") >>
    /\ ReadAfterLast
    /\ reply[1].res.found
    /\ reply[1].res.task.description = ""

(***************************************************************************)
(* Properties of the worker's lifetime (FairSpec).                         *)
(***************************************************************************)
\* The worker thread does not run (it ended, or was never started) and
\* holds no store handle.
WorkerEnded ==
    /\ worker \in {"unspawned", "exited", "panicked"}
    /\ handle = NoHandle
    /\ newHandle = NoHandle

\* C30: the worker never outlives its last command sender: once the
\* wrapper is dropped, or the factory has returned an error, the worker
\* eventually leaves its loop and releases the store handle; a worker that
\* has ended holds no handle.
C30_WorkerEndsWithSender ==
    /\ (factory \in {"dropped", "err_timeout", "err_open", "err_spawn"}) ~> WorkerEnded
    /\ [](worker \in {"exited", "panicked"} => handle = NoHandle)
    /\ [](factory \in {"dropped", "err_timeout", "err_open", "err_spawn"}
            => ~senderAlive)

\* The factory gave up on the handshake; the worker opened the store
\* afterwards, signalled it to nobody, and has left its loop.
C30_Witness ==
    /\ factory = "err_timeout"
    /\ startup = << "ok" >>
    /\ worker = "exited"
    /\ handle = NoHandle

=============================================================================
